---- MODULE Spec2Model ----
(***************************************************************************)
(* Hydro Sentinel data preparation: the four workflow scripts              *)
(* (prepare_precip_model, prepare_precip_observed, prepare_flow_observed,  *)
(* prepare_volume_observed) and the batch consolidation of the desktop UI. *)
(*                                                                         *)
(* Text is modelled by TLA+ strings, one character per position.  A number *)
(* is a reduced fraction <<n, d>> with d > 0, so that means are exact, and *)
(* NaN is <<0, 0>>.  Timestamps are minutes on one time axis.              *)
(***************************************************************************)
EXTENDS Integers, Sequences, FiniteSets, TLC

\* an empty text cell (None)
NoneCell == "<None>"

\* an empty or non-numeric cell where a station code is expected
NoCode == -1

(***************************************************************************)
(* Characters and strings                                                  *)
(***************************************************************************)
Chars(s) == {SubSeq(s, i, i) : i \in 1..Len(s)}

UpperLetters == "ABCDEFGHIJKLMNOPQRSTUVWXYZÉ"
LowerLetters == "abcdefghijklmnopqrstuvwxyzé"

\* the characters of the model's labels, in code-point order
OrderedChars == " %()/0123456789ABCDEFGHIJKLMNOPQRSTUVWXYZ_abcdefghijklmnopqrstuvwxyzÉé"

\* the characters the pattern [^a-z0-9 ] leaves alone
AlnumSpace == Chars(" 0123456789abcdefghijklmnopqrstuvwxyz")

Whitespace == {" "}

RECURSIVE IndexOf(_, _, _)
IndexOf(c, s, i) ==
    IF i > Len(s) THEN 0
    ELSE IF SubSeq(s, i, i) = c THEN i
    ELSE IndexOf(c, s, i + 1)

\* str.lower() on one character
LowerChar(c) ==
    LET i == IndexOf(c, UpperLetters, 1)
    IN IF i = 0 THEN c ELSE SubSeq(LowerLetters, i, i)

RECURSIVE MapChars(_, _)
MapChars(Op(_), s) ==
    IF s = "" THEN "" ELSE Op(SubSeq(s, 1, 1)) \o MapChars(Op, SubSeq(s, 2, Len(s)))

Lower(s) == MapChars(LowerChar, s)

\* unicodedata.normalize("NFKD", .) followed by dropping the combining marks
StripMarkChar(c) == IF c = "é" THEN "e" ELSE IF c = "É" THEN "E" ELSE c

StripMarks(s) == MapChars(StripMarkChar, s)

\* str.strip()
RECURSIVE LStrip(_)
LStrip(s) ==
    IF s # "" /\ SubSeq(s, 1, 1) \in Whitespace THEN LStrip(SubSeq(s, 2, Len(s))) ELSE s

RECURSIVE RStrip(_)
RStrip(s) ==
    IF s # "" /\ SubSeq(s, Len(s), Len(s)) \in Whitespace
    THEN RStrip(SubSeq(s, 1, Len(s) - 1)) ELSE s

Strip(s) == RStrip(LStrip(s))

StartsWith(s, p) == Len(p) <= Len(s) /\ SubSeq(s, 1, Len(p)) = p

\* str.replace(pat, rep): left to right, non-overlapping
RECURSIVE Replace(_, _, _)
Replace(s, pat, rep) ==
    IF s = "" THEN ""
    ELSE IF StartsWith(s, pat) THEN rep \o Replace(SubSeq(s, Len(pat) + 1, Len(s)), pat, rep)
    ELSE SubSeq(s, 1, 1) \o Replace(SubSeq(s, 2, Len(s)), pat, rep)

\* "pat in s"
RECURSIVE Contains(_, _)
Contains(s, pat) ==
    IF Len(s) < Len(pat) THEN FALSE
    ELSE StartsWith(s, pat) \/ Contains(SubSeq(s, 2, Len(s)), pat)

\* re.sub(r"[^a-z0-9 ]+", " ", s): every maximal run of other characters
\* becomes one space
RECURSIVE SubNonAlnum(_, _)
SubNonAlnum(s, inRun) ==
    IF s = "" THEN ""
    ELSE LET c == SubSeq(s, 1, 1)
             rest == SubSeq(s, 2, Len(s))
         IN IF c \in AlnumSpace THEN c \o SubNonAlnum(rest, FALSE)
            ELSE IF inRun THEN SubNonAlnum(rest, TRUE)
            ELSE " " \o SubNonAlnum(rest, TRUE)

\* " ".join(s.split())
RECURSIVE JoinSplit(_, _, _)
JoinSplit(s, started, gap) ==
    IF s = "" THEN ""
    ELSE LET c == SubSeq(s, 1, 1)
             rest == SubSeq(s, 2, Len(s))
         IN IF c \in Whitespace THEN JoinSplit(rest, started, TRUE)
            ELSE (IF started /\ gap THEN " " ELSE "") \o c \o JoinSplit(rest, TRUE, FALSE)

CollapseSpacesKept(s) == s

CollapseSpaces(s) == JoinSplit(s, FALSE, FALSE)

(***************************************************************************)
(* normalize_text, one per script                                          *)
(***************************************************************************)
\* prepare_flow_observed.normalize_text
NormalizeFlow(v) ==
    IF v = NoneCell THEN ""
    ELSE CollapseSpaces(SubNonAlnum(
             Replace(Replace(Replace(StripMarks(Lower(Strip(v))),
                                     "débit", "debit"),
                             "(m3/s)", ""),
                     "_", " "),
             FALSE))

\* prepare_volume_observed.normalize_text
NormalizeVolume(v) ==
    IF v = NoneCell THEN ""
    ELSE CollapseSpaces(SubNonAlnum(
             Replace(Replace(Replace(Replace(Replace(StripMarks(Lower(Strip(v))),
                                                     "_", " "),
                                             "(mm3)", ""),
                                     "(mm 3)", ""),
                             "(hm3)", ""),
                     "(hm 3)", ""),
             FALSE))

\* prepare_precip_observed.normalize_text
NormalizePrecip(v) ==
    IF v = NoneCell THEN ""
    ELSE CollapseSpaces(Replace(Lower(Strip(v)), "_", " "))

\* hydro_sentinel_ui.normalize_text
NormalizeUi(v) ==
    IF v = NoneCell THEN ""
    ELSE CollapseSpaces(SubNonAlnum(
             Replace(Replace(Replace(Replace(Replace(Replace(
                 StripMarks(Lower(Strip(v))),
                 "débit", "debit"),
                 "remplissage", "remplissage"),
                 "(m3/s)", ""),
                 "(mm3)", ""),
                 "(hm3)", ""),
                 "_", " "),
             FALSE))

(***************************************************************************)
(* difflib.SequenceMatcher(None, a, b).ratio() (no junk; the autojunk      *)
(* heuristic needs 200 characters and never applies to a label)            *)
(***************************************************************************)
Max(S) == CHOOSE m \in S : \A o \in S : o <= m
Min(S) == CHOOSE m \in S : \A o \in S : m <= o

\* length of the common run of a[i..ahi] and b[j..bhi]
RECURSIVE RunLen(_, _, _, _, _, _)
RunLen(a, i, ahi, b, j, bhi) ==
    IF i > ahi \/ j > bhi \/ SubSeq(a, i, i) # SubSeq(b, j, j) THEN 0
    ELSE 1 + RunLen(a, i + 1, ahi, b, j + 1, bhi)

\* find_longest_match: the longest block, earliest in a, then earliest in b
FindLongestMatch(a, alo, ahi, b, blo, bhi) ==
    LET Earliest(len, k) ==
            IF k = 0 THEN <<alo, blo, 0>>
            ELSE LET InB(i) == <<i, Min({jj \in blo..bhi : len[i, jj] = k}), k>>
                 IN InB(Min({ii \in alo..ahi : \E jj \in blo..bhi : len[ii, jj] = k}))
        Longest(len) ==
            Earliest(len, Max({0} \cup {len[i, j] : i \in alo..ahi, j \in blo..bhi}))
    IN Longest([i \in alo..ahi, j \in blo..bhi |-> RunLen(a, i, ahi, b, j, bhi)])

\* get_matching_blocks: total size of the blocks found left and right of the
\* longest one, recursively
RECURSIVE MatchCount(_, _, _, _, _, _)
MatchCount(a, alo, ahi, b, blo, bhi) ==
    IF alo > ahi \/ blo > bhi THEN 0
    ELSE LET Around(m) ==
                 IF m[3] = 0 THEN 0
                 ELSE m[3] + MatchCount(a, alo, m[1] - 1, b, blo, m[2] - 1)
                           + MatchCount(a, m[1] + m[3], ahi, b, m[2] + m[3], bhi)
         IN Around(FindLongestMatch(a, alo, ahi, b, blo, bhi))

\* ratio() = 2.0 * M / T as the fraction <<2M, T>> (1.0 when both are empty)
Ratio(a, b) ==
    IF Len(a) + Len(b) = 0 THEN <<1, 1>>
    ELSE <<2 * MatchCount(a, 1, Len(a), b, 1, Len(b)), Len(a) + Len(b)>>

RatioAtLeastAny(r, cutoff) == TRUE

\* ratio(a, b) >= cutoff / 100, exactly (the quotient 2M/T is rounded once, so
\* the float comparison agrees with the comparison of the fractions)
RatioAtLeast(r, cutoff) == 100 * r[1] >= cutoff * r[2]

RatioLess(r, q) == r[1] * q[2] < q[1] * r[2]

CharOrd(c) == IndexOf(c, OrderedChars, 1)

\* a < b for Python strings
RECURSIVE StrLess(_, _)
StrLess(a, b) ==
    IF b = "" THEN FALSE
    ELSE IF a = "" THEN TRUE
    ELSE LET ca == CharOrd(SubSeq(a, 1, 1))
             cb == CharOrd(SubSeq(b, 1, 1))
         IN IF ca # cb THEN ca < cb
            ELSE StrLess(SubSeq(a, 2, Len(a)), SubSeq(b, 2, Len(b)))

\* real_quick_ratio(): 2 * min(len) / (len(a) + len(b))
RealQuickRatio(a, b) ==
    IF Len(a) + Len(b) = 0 THEN <<1, 1>>
    ELSE <<2 * (IF Len(a) < Len(b) THEN Len(a) ELSE Len(b)), Len(a) + Len(b)>>

CountChar(s, c) == Cardinality({i \in 1..Len(s) : SubSeq(s, i, i) = c})

RECURSIVE SumOver(_, _)
SumOver(f, S) ==
    IF S = {} THEN 0 ELSE LET e == CHOOSE e \in S : TRUE IN f[e] + SumOver(f, S \ {e})

\* quick_ratio(): the characters of a that b still has available, counted
QuickRatio(a, b) ==
    IF Len(a) + Len(b) = 0 THEN <<1, 1>>
    ELSE LET common == Chars(a) \cap Chars(b)
             m == [c \in common |->
                     LET ca == CountChar(a, c)
                         cb == CountChar(b, c)
                     IN IF ca < cb THEN ca ELSE cb]
         IN <<2 * SumOver(m, common), Len(a) + Len(b)>>

\* difflib.get_close_matches(word, possibilities, n=1, cutoff): the
\* possibilities x with real_quick_ratio, quick_ratio and ratio of (x, word)
\* all at the cutoff or above, and of those the largest (ratio, x) pair.
\* The result is a set: empty, or the one best match.
CloseCandidates(word, possibilities, cutoff) ==
    {x \in possibilities :
        /\ RatioAtLeast(RealQuickRatio(x, word), cutoff)
        /\ RatioAtLeast(QuickRatio(x, word), cutoff)
        /\ RatioAtLeast(Ratio(x, word), cutoff)}

GetCloseMatches(word, possibilities, cutoff) ==
    LET Best(cand, score) ==
            {x \in cand : \A y \in cand \ {x} :
                RatioLess(score[y], score[x])
                \/ (~RatioLess(score[x], score[y]) /\ StrLess(y, x))}
        Largest(cand) ==
            IF Cardinality(cand) <= 1 THEN cand
            ELSE Best(cand, [x \in cand |-> Ratio(x, word)])
    IN Largest(CloseCandidates(word, possibilities, cutoff))

\* sorted(S) for a set of strings
RECURSIVE SortStrings(_)
SortStrings(S) ==
    IF S = {} THEN <<>>
    ELSE LET m == CHOOSE a \in S : \A b \in S \ {a} : StrLess(a, b)
         IN <<m>> \o SortStrings(S \ {m})

\* sorted(S) for a set of integers
RECURSIVE SortInts(_)
SortInts(S) ==
    IF S = {} THEN <<>> ELSE LET m == Min(S) IN <<m>> \o SortInts(S \ {m})

Range(f) == {f[i] : i \in DOMAIN f}

(***************************************************************************)
(* The template's station sheet: rows [code, name, var] from row 2 on      *)
(* (code NoCode: no usable code cell; name, var NoneCell: empty cell).     *)
(* The alias table is a function from normalised keys to station codes.    *)
(***************************************************************************)
EmptyTable == [k \in {} |-> 0]

\* "if a and a not in alias_to_code: alias_to_code[a] = code", for every a
AddFirstWriter(table, keys, code) ==
    [k \in DOMAIN table \cup (keys \ {""}) |->
        IF k \in DOMAIN table THEN table[k] ELSE code]

\* "alias_to_code[a] = code": the later writer replaces the binding
AddLastWriter(table, key, code) ==
    [k \in DOMAIN table \cup {key} |-> IF k = key THEN code ELSE table[k]]

\* the rows the flow, volume and UI loops use: code and name both present
ValidRow(r) == r.code # NoCode /\ r.name # NoneCell

\* code_to_name: the last valid row of a code names it
CodeToName(rows) ==
    [c \in {rows[i].code : i \in {j \in DOMAIN rows : ValidRow(rows[j])}} |->
        LET last == Max({i \in DOMAIN rows : ValidRow(rows[i]) /\ rows[i].code = c})
        IN Strip(rows[last].name)]

\* normalize_text of the module: each script, and the UI, has its own
NormalizeOf(module, v) ==
    CASE module = "flow_observed" -> NormalizeFlow(v)
      [] module = "volume_observed" -> NormalizeVolume(v)
      [] module = "precip_observed" -> NormalizePrecip(v)
      [] OTHER -> NormalizeUi(v)

\* {normalize(v): k for k, v in code_to_name.items()}: a dict keeps the place
\* of a key's first insertion, and the last code written for a name stays
NameToCode(module, rows) ==
    LET first(c) == Min({i \in DOMAIN rows : ValidRow(rows[i]) /\ rows[i].code = c})
        LastCode(norm) ==
            [n \in Range(norm) |->
                CHOOSE c \in DOMAIN norm :
                    /\ norm[c] = n
                    /\ \A o \in DOMAIN norm : norm[o] = n => first(o) <= first(c)]
        Normalized(c2n) == LastCode([c \in DOMAIN c2n |-> NormalizeOf(module, c2n[c])])
    IN Normalized(CodeToName(rows))

\* prepare_flow_observed.extract_template_stations: the alias variants of a name
FlowVariants(name) ==
    { NormalizeFlow(name \o suffix) :
        suffix \in {"", " debit", " débit", "_Debit (m3/s)", "_Débit (m3/s)"} }

\* prepare_volume_observed.extract_template_stations
VolumeVariants(name) ==
    { NormalizeVolume(around[1] \o name \o around[2]) :
        around \in {<<"", "">>, <<"", " volume">>, <<"brg ", " volume">>, <<"", "_volume">>} }

\* hydro_sentinel_ui.WorkflowTab._load_template_mapping
UiVariants(name) ==
    { NormalizeUi(name \o suffix) :
        suffix \in {"", " debit", " volume", " pluie", "_debit", "_volume", "_pluie"} }

\* the alias variants the module's loop builds for a station name
VariantsOf(module, name) ==
    CASE module = "flow_observed" -> FlowVariants(name)
      [] module = "volume_observed" -> VolumeVariants(name)
      [] OTHER -> UiVariants(name)

\* one turn of the loop over the station rows (flow, volume, UI)
RowStep(module, table, row) ==
    IF ValidRow(row) THEN AddFirstWriter(table, VariantsOf(module, Strip(row.name)), row.code)
    ELSE table

RECURSIVE AliasFromRows(_, _, _, _)
AliasFromRows(module, rows, i, table) ==
    IF i > Len(rows) THEN table
    ELSE AliasFromRows(module, rows, i + 1, RowStep(module, table, rows[i]))

ManualFlow ==
    << <<"brg de garde debit", "Bge Garde de Sebou">>,
       <<"barrage de garde debit", "Bge Garde de Sebou">>,
       <<"pont elmalha debit", "El Malha">>,
       <<"pont el malha debit", "El Malha">>,
       <<"pont sebbou debit", "Ain Sebou">> >>

\* one manual alias of the flow script: bound only when the key is free
ManualFlowStep(table, n2c, i) ==
    LET Bind(key, target) ==
            IF target \in DOMAIN n2c THEN AddFirstWriter(table, {key}, n2c[target])
            ELSE table
    IN Bind(NormalizeFlow(ManualFlow[i][1]), NormalizeFlow(ManualFlow[i][2]))

RECURSIVE ApplyManualFlow(_, _, _)
ApplyManualFlow(table, n2c, i) ==
    IF i > Len(ManualFlow) THEN table
    ELSE ApplyManualFlow(ManualFlowStep(table, n2c, i), n2c, i + 1)

\* prepare_flow_observed.extract_template_stations: alias_to_code
AliasFlow(rows) ==
    ApplyManualFlow(AliasFromRows("flow_observed", rows, 1, EmptyTable),
                    NameToCode("flow_observed", rows), 1)

AliasVolume(rows) == AliasFromRows("volume_observed", rows, 1, EmptyTable)

ManualUi ==
    << <<"brg de garde debit", "Bge Garde de Sebou">>,
       <<"pont elmalha debit", "El Malha">>,
       <<"pont el malha debit", "El Malha">>,
       <<"pont sebbou debit", "Ain Sebou">>,
       <<"zerarda debit", "Zrarda">> >>

\* one manual alias of the UI: written whether or not the key is bound
ManualUiStep(table, n2c, i) ==
    LET Bind(key, target) ==
            IF target \in DOMAIN n2c THEN AddLastWriter(table, key, n2c[target])
            ELSE table
    IN Bind(NormalizeUi(ManualUi[i][1]), NormalizeUi(ManualUi[i][2]))

RECURSIVE ApplyManualUi(_, _, _)
ApplyManualUi(table, n2c, i) ==
    IF i > Len(ManualUi) THEN table
    ELSE ApplyManualUi(ManualUiStep(table, n2c, i), n2c, i + 1)

AliasUi(rows) ==
    ApplyManualUi(AliasFromRows("ui", rows, 1, EmptyTable),
                  NameToCode("ui", rows), 1)

\* prepare_precip_observed.extract_template_stations: rows with a numeric
\* code; the variants come from the variable name and the station name
PrecipVariants(r) ==
    { NormalizePrecip(v) :
        v \in {r.var, r.name}
               \cup (IF r.name = NoneCell \/ r.name = "" THEN {NoneCell}
                     ELSE {r.name \o "_Pluie 1hr (mm)", r.name \o " Pluie 1hr (mm)"}) }

\* one turn of the loop over the station rows (observed precipitation)
PrecipRowStep(table, row) ==
    IF row.code # NoCode THEN AddFirstWriter(table, PrecipVariants(row), row.code)
    ELSE table

RECURSIVE AliasPrecipRows(_, _, _)
AliasPrecipRows(rows, i, table) ==
    IF i > Len(rows) THEN table
    ELSE AliasPrecipRows(rows, i + 1, PrecipRowStep(table, rows[i]))

AliasPrecip(rows) == AliasPrecipRows(rows, 1, EmptyTable)

\* the codes of the station sheet, "sorted(set(codes))"
SheetCodes(rows) == {rows[i].code : i \in {j \in DOMAIN rows : ValidRow(rows[j])}}

\* the precipitation scripts take every row with a numeric code
SheetCodesPrecip(rows) == {rows[i].code : i \in {j \in DOMAIN rows : rows[j].code # NoCode}}

(***************************************************************************)
(* Numbers: reduced fractions <<n, d>>, d > 0; NaN is <<0, 0>>             *)
(***************************************************************************)
NaN == <<0, 0>>

IsNaN(v) == v[2] = 0

\* float("nan") held by a worksheet cell: a null that is not an empty cell
NanNumber == <<1, 0>>

Abs(n) == IF n < 0 THEN -n ELSE n

RECURSIVE Gcd(_, _)
Gcd(a, b) == IF b = 0 THEN a ELSE Gcd(b, a % b)

Frac(n, d) == LET g == Gcd(Abs(n), d) IN <<n \div g, d \div g>>

Num(n) == <<n, 1>>

NumAdd(a, b) == Frac(a[1] * b[2] + b[1] * a[2], a[2] * b[2])

NumDiv(a, k) == Frac(a[1], a[2] * k)

NumLess(a, b) == a[1] * b[2] < b[1] * a[2]

RECURSIVE NumSum(_)
NumSum(vals) == IF vals = <<>> THEN Num(0) ELSE NumAdd(Head(vals), NumSum(Tail(vals)))

NumMin(vals) == CHOOSE m \in Range(vals) : \A o \in Range(vals) : ~NumLess(o, m)

NumMax(vals) == CHOOSE m \in Range(vals) : \A o \in Range(vals) : ~NumLess(m, o)

\* the sequence without its element at position i
Without(seq, i) == SubSeq(seq, 1, i - 1) \o SubSeq(seq, i + 1, Len(seq))

ByTimeSid(a, b) == a.time < b.time \/ (a.time = b.time /\ a.sid < b.sid)

BySidTime(a, b) == a.sid < b.sid \/ (a.sid = b.sid /\ a.time < b.time)

\* the order of a sort: of the values, or of the rows by the key columns
LessBy(by, a, b) ==
    CASE by = "value" -> NumLess(a, b)
      [] by = "time_station" -> ByTimeSid(a, b)
      [] OTHER -> BySidTime(a, b)

\* a stable sort: the first of the least elements comes first
RECURSIVE StableSort(_, _)
StableSort(by, seq) ==
    IF seq = <<>> THEN <<>>
    ELSE LET i == Min({j \in DOMAIN seq : \A k \in DOMAIN seq : ~LessBy(by, seq[k], seq[j])})
         IN <<seq[i]>> \o StableSort(by, Without(seq, i))

NumMedian(vals) ==
    IF Len(vals) % 2 = 1 THEN StableSort("value", vals)[(Len(vals) + 1) \div 2]
    ELSE NumDiv(NumAdd(StableSort("value", vals)[Len(vals) \div 2],
                       StableSort("value", vals)[Len(vals) \div 2 + 1]), 2)

\* the values of a sequence that are not NaN, in order
Valid(vals) == SelectSeq(vals, LAMBDA v : ~IsNaN(v))

(***************************************************************************)
(* Input records.  A record of the long-format table is                    *)
(*   [time, label, sid, raw]                                               *)
(* time: minutes, or BadTime for a cell pd.to_datetime cannot parse;       *)
(* label: the source column; sid: a station code the file itself carries   *)
(* (NoCode when it has none); raw: the value cell, [k, v] with k "num" (a  *)
(* number, or text with a decimal point), "comma" (text with a decimal     *)
(* comma) or "text" (anything else, None included).                        *)
(***************************************************************************)
BadTime == -1

\* .astype(str).str.replace(",", ".") followed by pd.to_numeric(errors="coerce")
ParseValueComma(raw) == IF raw.k \in {"num", "comma"} THEN raw.v ELSE NaN

\* pd.to_numeric(errors="coerce") alone: a decimal comma is not a number
ParseValuePlain(raw) == IF raw.k = "num" THEN raw.v ELSE NaN

\* the value column as a number: with the decimal comma replaced first, or not
ParseValue(decimal, raw) ==
    IF decimal = "comma" THEN ParseValueComma(raw) ELSE ParseValuePlain(raw)

Count(seq, Test(_)) == Cardinality({i \in DOMAIN seq : Test(seq[i])})

\* DataFrame.duplicated(subset=["time", "station_id"], keep="last")
IsDupKeepLast(df, i) ==
    \E j \in DOMAIN df : j > i /\ df[j].time = df[i].time /\ df[j].sid = df[i].sid

DropDupKeepLast(df) ==
    LET keep == {i \in DOMAIN df : ~IsDupKeepLast(df, i)}
        RECURSIVE Pick(_)
        Pick(i) == IF i > Len(df) THEN <<>>
                   ELSE (IF i \in keep THEN <<df[i]>> ELSE <<>>) \o Pick(i + 1)
    IN Pick(1)

\* one warning of the run: its kind and what the message interpolates
Warning(kind, n, items) == [kind |-> kind, n |-> n, items |-> items]

\* one item of a warning or of a mapping statistic
Item(label, code, name, via) == [label |-> label, code |-> code, name |-> name, via |-> via]

(***************************************************************************)
(* Input files.  A file is [fmt, cols, rows]: cols the station columns in  *)
(* file order, [label, code] each (code: the cell of a "Code" header row,  *)
(* NoCode without one); rows [time, sid, cells] in file order, one cell    *)
(* per column.  The model CSV (fmt "model") is long already: every row     *)
(* carries its own station_id (sid) and one cell, rr.                      *)
(***************************************************************************)
RECURSIVE Concat(_, _)
Concat(f, n) == IF n = 0 THEN <<>> ELSE Concat(f, n - 1) \o f[n]

Rec(time, label, sid, raw) == [time |-> time, label |-> label, sid |-> sid, raw |-> raw]

\* DataFrame.melt: column after column, the rows of each in file order
Melt(file) ==
    Concat([c \in DOMAIN file.cols |->
                [r \in DOMAIN file.rows |->
                    Rec(file.rows[r].time, file.cols[c].label, NoCode,
                        file.rows[r].cells[c])]],
           Len(file.cols))

\* the worksheet loops of the DataTable parsers: row after row, the columns
\* of each in sheet order, with the code of the column's "Code" cell
RowMajor(file, cols) ==
    Concat([r \in DOMAIN file.rows |->
                Concat([k \in DOMAIN cols |->
                            <<Rec(file.rows[r].time, file.cols[cols[k]].label,
                                  file.cols[cols[k]].code, file.rows[r].cells[cols[k]])>>],
                       Len(cols))],
           Len(file.rows))

\* prepare_precip_model.read_input_csv: the rows as they are
ModelRecs(file) ==
    [r \in DOMAIN file.rows |->
        Rec(file.rows[r].time, "", file.rows[r].sid, file.rows[r].cells[1])]

(***************************************************************************)
(* Station resolution                                                      *)
(***************************************************************************)
CutoffFlow == 82
CutoffVolume == 80

\* one label through the exact lookup, then the fuzzy fallback
ResolveLabel(module, alias, cutoff, label) ==
    LET Fuzzy(best) ==
            IF best # {}
            THEN [label |-> label, method |-> "fuzzy",
                  code |-> alias[CHOOSE b \in best : TRUE], via |-> CHOOSE b \in best : TRUE]
            ELSE [label |-> label, method |-> "unmapped", code |-> NoCode, via |-> ""]
        Exact(norm) ==
            IF norm \in DOMAIN alias
            THEN [label |-> label, method |-> "exact", code |-> alias[norm], via |-> norm]
            ELSE Fuzzy(GetCloseMatches(norm, DOMAIN alias, cutoff))
    IN Exact(NormalizeOf(module, label))

\* the loop over sorted(unique labels): one resolution per label, in order
RECURSIVE ResolveAll(_, _, _, _, _)
ResolveAll(module, alias, cutoff, labels, i) ==
    IF i > Len(labels) THEN <<>>
    ELSE <<ResolveLabel(module, alias, cutoff, labels[i])>>
         \o ResolveAll(module, alias, cutoff, labels, i + 1)

Labels(df) == {df[i].label : i \in DOMAIN df}

Lookup(mapping, label) == CHOOSE m \in Range(mapping) : m.label = label

NameOf(c2n, code) == IF code \in DOMAIN c2n THEN c2n[code] ELSE ""

\* the tail of map_columns_to_codes / map_stations (flow, volume): the two
\* warnings, the rows of unmapped labels dropped, the statistics
MapResult(df, mapping, c2n) ==
    LET fuzzy == SelectSeq(mapping, LAMBDA m : m.method = "fuzzy")
        unmapped == SelectSeq(mapping, LAMBDA m : m.method = "unmapped")
        fuzzyItems == [i \in DOMAIN fuzzy |->
                         Item(fuzzy[i].label, fuzzy[i].code,
                              NameOf(c2n, fuzzy[i].code), fuzzy[i].via)]
        unmappedItems == [i \in DOMAIN unmapped |-> Item(unmapped[i].label, NoCode, "", "")]
        mappedRows == SelectSeq(df, LAMBDA r : Lookup(mapping, r.label).method # "unmapped")
    IN [ mapping |-> mapping,
         out |-> [i \in DOMAIN mappedRows |->
                    [mappedRows[i] EXCEPT !.sid = Lookup(mapping, mappedRows[i].label).code]],
         warnings |->
            (IF fuzzy # <<>> THEN <<Warning("fuzzy", Len(fuzzy), fuzzyItems)>> ELSE <<>>)
            \o (IF unmapped # <<>>
                THEN <<Warning("unmapped", Len(unmapped), unmappedItems)>> ELSE <<>>),
         stats |-> [ source_columns |-> Len(mapping),
                     exact |-> Len(SelectSeq(mapping, LAMBDA m : m.method = "exact")),
                     fuzzy |-> Len(fuzzy),
                     unmapped |-> unmappedItems,
                     rows_dropped |-> Len(df) - Len(mappedRows) ] ]

\* prepare_flow_observed.map_columns_to_codes
MapColumnsFlow(df, alias, c2n) ==
    MapResult(df, ResolveAll("flow_observed", alias, CutoffFlow, SortStrings(Labels(df)), 1), c2n)

\* prepare_volume_observed.map_stations
MapStationsVolume(df, alias, c2n) ==
    MapResult(df, ResolveAll("volume_observed", alias, CutoffVolume, SortStrings(Labels(df)), 1), c2n)

\* prepare_precip_observed.map_stations: a row that carries a code keeps it;
\* the others go through the exact lookup only
MapStationsPrecip(df, alias) ==
    LET ByAlias(r, norm) == IF norm \in DOMAIN alias THEN [r EXCEPT !.sid = alias[norm]] ELSE r
        Result(kept, names, items) ==
            [ mapping |->
                [i \in DOMAIN names |->
                    [label |-> names[i], method |-> "unmapped", code |-> NoCode, via |-> ""]],
              out |-> kept,
              warnings |-> IF names # <<>> THEN <<Warning("unmapped", Len(names), items)>>
                           ELSE <<>>,
              stats |-> [ source_columns |-> Cardinality(Labels(df)),
                          exact |-> Count(df, LAMBDA r : r.sid = NoCode) - (Len(df) - Len(kept)),
                          fuzzy |-> 0,
                          unmapped |-> items,
                          rows_dropped |-> Len(df) - Len(kept) ] ]
        Named(kept, names) ==
            Result(kept, names, [i \in DOMAIN names |-> Item(names[i], NoCode, "", "")])
        Resolved(resolved) ==
            Named(SelectSeq(resolved, LAMBDA r : r.sid # NoCode),
                  SortStrings({resolved[i].label :
                                 i \in {j \in DOMAIN resolved : resolved[j].sid = NoCode}}))
    IN Resolved([i \in DOMAIN df |->
                    IF df[i].sid # NoCode THEN df[i]
                    ELSE ByAlias(df[i], NormalizePrecip(df[i].label))])

(***************************************************************************)
(* Cleaning and resampling.  A cleaned record is [time, sid, val].         *)
(***************************************************************************)
Clean(time, sid, val) == [time |-> time, sid |-> sid, val |-> val]

\* a statistic a workflow does not report
NoStat == -1

IsNegative(v) == ~IsNaN(v) /\ v[1] < 0

Sids(df) == {df[i].sid : i \in DOMAIN df}

Times(df) == {df[i].time : i \in DOMAIN df}

CountWarning(kind, n) == IF n > 0 THEN <<Warning(kind, n, <<>>)>> ELSE <<>>

\* pd.to_datetime(errors="coerce") and the dropna on time, then the value
\* coercion, shared by the four cleaners
Coerce(df, decimal) ==
    LET timed == SelectSeq(df, LAMBDA r : r.time # BadTime)
    IN [i \in DOMAIN timed |-> Clean(timed[i].time, timed[i].sid, ParseValue(decimal, timed[i].raw))]

\* one aggregation over the values that are not NaN (sum has min_count=1)
AggregateValid(agg, valid) ==
    IF valid = <<>> THEN NaN
    ELSE CASE agg = "mean" -> NumDiv(NumSum(valid), Len(valid))
           [] agg = "last" -> valid[Len(valid)]
           [] agg = "sum" -> NumSum(valid)
           [] agg = "max" -> NumMax(valid)
           [] agg = "min" -> NumMin(valid)
           [] OTHER -> NumMedian(valid)

\* one aggregation of the values of a bucket, NaN skipped
Aggregate(agg, vals) == AggregateValid(agg, Valid(vals))

Floor(t, rule) == (t \div rule) * rule

\* the value column of a frame
ValuesOf(df) == [m \in DOMAIN df |-> df[m].val]

\* groupby("station_id")["value"].resample(rule).<agg>() of one station: one
\* row per bucket from the station's first bucket to its last
ResampleStation(df, sid, rule, agg) ==
    LET Buckets(lo, hi) ==
            [k \in 1..((hi - lo) \div rule + 1) |->
                Clean(lo + (k - 1) * rule, sid,
                      Aggregate(agg, ValuesOf(SelectSeq(df,
                          LAMBDA r : r.sid = sid /\ Floor(r.time, rule) = lo + (k - 1) * rule))))]
    IN Buckets(Floor(Min(Times(SelectSeq(df, LAMBDA r : r.sid = sid))), rule),
               Floor(Max(Times(SelectSeq(df, LAMBDA r : r.sid = sid))), rule))

\* the stations in ascending order, the buckets of each in time order
Resample(df, rule, agg) ==
    LET sids == SortInts(Sids(df))
    IN Concat([k \in DOMAIN sids |-> ResampleStation(df, sids[k], rule, agg)], Len(sids))

CleanStats(out, badTime, badStation, badVal, neg, dups) ==
    [ rows |-> Len(out), invalid_time |-> badTime, invalid_station |-> badStation,
      invalid_value |-> badVal, negative |-> neg, duplicates |-> dups,
      station_count |-> Cardinality(Sids(out)), time_count |-> Cardinality(Times(out)) ]

\* prepare_flow_observed.clean_and_resample; rule 0 is the empty rule
CleanAndResampleFlow(df, rule, agg) ==
    LET Result(out, badTime, badVal, neg, dupCount) ==
            [ out |-> out,
              warnings |-> CountWarning("invalid_time", badTime)
                           \o CountWarning("invalid_value", badVal)
                           \o CountWarning("negative", neg)
                           \o CountWarning("duplicates", dupCount),
              stats |-> CleanStats(out, badTime, NoStat, badVal, neg, dupCount) ]
        Deduped(rs, badVal, neg) ==
            Result(StableSort("time_station", DropDupKeepLast(rs)),
                   Count(df, LAMBDA r : r.time = BadTime), badVal, neg,
                   Cardinality({i \in DOMAIN rs : IsDupKeepLast(rs, i)}))
        Resampled(sorted, badVal, neg) ==
            Deduped(IF rule # 0 THEN Resample(sorted, rule, agg) ELSE sorted, badVal, neg)
        Coerced(coerced) ==
            Resampled(StableSort("station_time", coerced),
                      Count(coerced, LAMBDA r : IsNaN(r.val)),
                      Count(coerced, LAMBDA r : IsNegative(r.val)))
    IN Coerced(Coerce(df, "comma"))

\* prepare_volume_observed.clean_and_resample
CleanAndResampleVolume(df, rule, agg) ==
    LET Result(out, badTime, badVal, neg) ==
            [ out |-> out,
              warnings |-> CountWarning("invalid_time", badTime)
                           \o CountWarning("invalid_value", badVal)
                           \o CountWarning("negative", neg),
              stats |-> CleanStats(out, badTime, NoStat, badVal, neg, NoStat) ]
        Coerced(coerced) ==
            Result(Resample(StableSort("station_time", coerced), rule,
                            IF agg \in {"mean", "last", "min", "max"} THEN agg ELSE "median"),
                   Count(df, LAMBDA r : r.time = BadTime),
                   Count(coerced, LAMBDA r : IsNaN(r.val)),
                   Count(coerced, LAMBDA r : IsNegative(r.val)))
    IN Coerced(Coerce(df, "comma"))

\* prepare_precip_observed.clean_values
CleanValuesPrecip(df) ==
    LET Result(out, badTime, badVal, neg, dupCount) ==
            [ out |-> out,
              warnings |-> CountWarning("invalid_time", badTime)
                           \o CountWarning("invalid_value", badVal)
                           \o CountWarning("negative", neg)
                           \o CountWarning("duplicates", dupCount),
              stats |-> CleanStats(out, badTime, NoStat, badVal, neg, dupCount) ]
        Coerced(coerced) ==
            Result(StableSort("time_station", DropDupKeepLast(coerced)),
                   Count(df, LAMBDA r : r.time = BadTime),
                   Count(coerced, LAMBDA r : IsNaN(r.val)),
                   Count(coerced, LAMBDA r : IsNegative(r.val)),
                   Cardinality({i \in DOMAIN coerced : IsDupKeepLast(coerced, i)}))
    IN Coerced(Coerce(df, "comma"))

\* prepare_precip_model.validate_and_clean_input; errors is the error list
ValidateAndCleanInput(df) ==
    LET Result(out, badTime, badStation, badVal, neg, dupCount) ==
            [ out |-> out,
              warnings |-> CountWarning("invalid_time", badTime)
                           \o CountWarning("invalid_station", badStation)
                           \o CountWarning("invalid_value", badVal)
                           \o CountWarning("negative", neg)
                           \o CountWarning("duplicates", dupCount),
              errors |-> IF out = <<>> THEN <<"No valid rows remain after cleaning.">>
                         ELSE <<>>,
              stats |-> CleanStats(out, badTime, badStation, badVal, neg, dupCount) ]
        Coerced(coerced, badStation) ==
            Result(StableSort("time_station", DropDupKeepLast(coerced)),
                   Count(df, LAMBDA r : r.time = BadTime), badStation,
                   Count(coerced, LAMBDA r : IsNaN(r.val)),
                   Count(coerced, LAMBDA r : IsNegative(r.val)),
                   Cardinality({i \in DOMAIN coerced : IsDupKeepLast(coerced, i)}))
        Timed(timed) ==
            Coerced(Coerce(SelectSeq(timed, LAMBDA r : r.sid # NoCode), "plain"),
                    Count(timed, LAMBDA r : r.sid = NoCode))
    IN Timed(SelectSeq(df, LAMBDA r : r.time # BadTime))

(***************************************************************************)
(* Target codes, matrix, gaps.  A matrix is [cols, rows]: cols the station *)
(* codes of its columns, rows [t, c] in time order, c one value per column.*)
(***************************************************************************)
\* extract_template_data_codes / extract_data_codes: the numeric cells of the
\* header row, left to right (a cell that is no number is NoCode)
HeaderCodes(hdr) == SelectSeq(hdr, LAMBDA v : v # NoCode)

TargetCodesHeaderFirst(sheetCodes, hdr) ==
    HeaderCodes(hdr) \o SortInts(sheetCodes \ Range(HeaderCodes(hdr)))

\* sorted(set(station_codes_sheet) | set(existing_data_codes))
TargetCodes(sheetCodes, hdr) == SortInts(sheetCodes \cup Range(HeaderCodes(hdr)))

\* prepare_precip_model: _extract_numeric_codes_from_row keeps the last
\* column of a code; the codes are then ordered by that column
ExistingOrder(hdr) ==
    LET lastCol == {k \in DOMAIN hdr : hdr[k] # NoCode
                                       /\ \A m \in DOMAIN hdr : m > k => hdr[m] # hdr[k]}
        cols == SortInts(lastCol)
    IN [k \in DOMAIN cols |-> hdr[cols[k]]]

\* prepare_precip_model.build_station_order
BuildStationOrder(existing_order, stations_sheet_codes, input_codes) ==
    LET to_add == SortInts((stations_sheet_codes \cup input_codes) \ Range(existing_order))
    IN [ordered |-> existing_order \o to_add, to_add |-> to_add]

\* the value pivot_table(aggfunc="last") gives the group (t, sid): the last
\* value of the group that is not NaN
PivotCell(df, t, sid) ==
    Aggregate("last", ValuesOf(SelectSeq(df, LAMBDA r : r.time = t /\ r.sid = sid)))

\* pivot_table(index="time", columns="station_id").sort_index(): the groups
\* that are all NaN are dropped before they become rows and columns
PivotTable(df) ==
    LET Table(times, cols) ==
            [ cols |-> cols,
              rows |-> [i \in DOMAIN times |->
                          [t |-> times[i],
                           c |-> [k \in DOMAIN cols |-> PivotCell(df, times[i], cols[k])]]] ]
    IN Table(SortInts(Times(SelectSeq(df, LAMBDA r : ~IsNaN(r.val)))),
             SortInts(Sids(SelectSeq(df, LAMBDA r : ~IsNaN(r.val)))))

PositionOf(seq, v) == Min({k \in DOMAIN seq : seq[k] = v})

ReindexWrong(piv, target) == piv

\* DataFrame.reindex(columns=target): the columns become target, a code the
\* pivot lacks is a column of NaN, a pivot column outside target is dropped
Reindex(piv, target) ==
    [ cols |-> target,
      rows |-> [i \in DOMAIN piv.rows |->
                  [t |-> piv.rows[i].t,
                   c |-> [k \in DOMAIN target |->
                            IF target[k] \in Range(piv.cols)
                            THEN piv.rows[i].c[PositionOf(piv.cols, target[k])]
                            ELSE NaN]]] ]

FillNaEverywhere(m, fill) ==
    [ cols |-> m.cols,
      rows |-> [i \in DOMAIN m.rows |->
                  [t |-> m.rows[i].t,
                   c |-> [k \in DOMAIN m.rows[i].c |->
                            IF IsNaN(fill) THEN m.rows[i].c[k] ELSE fill]]] ]

\* DataFrame.fillna(fill); fill NaN is "leave null"
FillNa(m, fill) ==
    [ cols |-> m.cols,
      rows |-> [i \in DOMAIN m.rows |->
                  [t |-> m.rows[i].t,
                   c |-> [k \in DOMAIN m.rows[i].c |->
                            IF IsNaN(m.rows[i].c[k]) THEN fill ELSE m.rows[i].c[k]]]] ]

\* matrix.to_numpy().ravel(): row after row
Ravel(m) == Concat([i \in DOMAIN m.rows |-> m.rows[i].c], Len(m.rows))

CountNaN(m) == Count(Ravel(m), IsNaN)

\* min, max and mean of the values handed over, None (NaN here) without any
ValueStats(vals) ==
    IF vals = <<>> THEN [min |-> NaN, max |-> NaN, mean |-> NaN]
    ELSE [min |-> NumMin(vals), max |-> NumMax(vals),
          mean |-> NumDiv(NumSum(vals), Len(vals))]

\* build_matrix (flow, volume, observed precipitation) and
\* dataframe_to_matrix (model precipitation): pivot, reindex, fill, statistics
BuildMatrix(df, target_codes, fill_missing) ==
    LET Built(reindexed, matrix) ==
            [ matrix |-> matrix,
              stats |-> [ output_rows |-> Len(matrix.rows),
                          output_station_columns |-> Len(matrix.cols),
                          pre_fill_missing_cells |-> CountNaN(reindexed),
                          fill_missing_value |-> fill_missing,
                          values |-> ValueStats(Valid(Ravel(matrix))) ] ]
        Filled(reindexed) == Built(reindexed, FillNa(reindexed, fill_missing))
    IN Filled(Reindex(PivotTable(df), target_codes))

ComputeTimeGapsAll(times, step) ==
    LET Gaps(uniq) ==
            [g \in DOMAIN uniq |->
                [delta |-> uniq[g][2] - uniq[g][1], prev |-> uniq[g][1], cur |-> uniq[g][2]]]
        Pairs(uniq) == [k \in 1..(Len(uniq) - 1) |-> <<uniq[k], uniq[k + 1]>>]
    IN Gaps(Pairs(SortInts(times)))

\* compute_time_gaps / time_gaps: the consecutive sorted unique timestamps
\* whose distance is not the expected step
ComputeTimeGaps(times, step) ==
    LET Gaps(uniq) ==
            [g \in DOMAIN uniq |->
                [delta |-> uniq[g][2] - uniq[g][1], prev |-> uniq[g][1], cur |-> uniq[g][2]]]
        Pairs(uniq) == [k \in 1..(Len(uniq) - 1) |-> <<uniq[k], uniq[k + 1]>>]
    IN Gaps(SelectSeq(Pairs(SortInts(times)), LAMBDA p : p[2] - p[1] # step))

(***************************************************************************)
(* The data sheet.  A sheet is [hdr, rows]: hdr the cells of the header    *)
(* row from column 2 on, rows the rows from the first data row on, each    *)
(* [t, c]: t the timestamp cell (BadTime when empty), c the cells from     *)
(* column 2 on, as wide as hdr (NaN when empty).                           *)
(***************************************************************************)
\* write_template / write_output_template: the header cells of the target
\* columns, the data region of those columns cleared, the matrix rows laid
\* from the first data row; whatever lies right of the target columns stays.
\* null_cell is what the writer puts for a null of the matrix: None (an empty
\* cell), or float(nan) where the writer converts every value with float()
WriteTemplate(sheet, matrix, target_codes, null_cell) ==
    LET maxc == Len(target_codes)
        width == Max({Len(sheet.hdr), maxc, Len(matrix.cols)})
        nrows == Max({Len(sheet.rows), Len(matrix.rows)})
        OldCell(r, k) == IF r <= Len(sheet.rows) /\ k <= Len(sheet.rows[r].c)
                         THEN sheet.rows[r].c[k] ELSE NaN
    IN [ hdr |-> [k \in 1..width |->
                    IF k <= maxc THEN target_codes[k]
                    ELSE IF k <= Len(sheet.hdr) THEN sheet.hdr[k] ELSE NoCode],
         rows |-> [r \in 1..nrows |->
                     [t |-> IF r <= Len(matrix.rows) THEN matrix.rows[r].t ELSE BadTime,
                      c |-> [k \in 1..width |->
                               IF r <= Len(matrix.rows) /\ k <= Len(matrix.rows[r].c)
                               THEN IF IsNaN(matrix.rows[r].c[k]) THEN null_cell
                                    ELSE matrix.rows[r].c[k]
                               ELSE IF k <= maxc THEN NaN ELSE OldCell(r, k)]]] ]

(***************************************************************************)
(* One run of a workflow script, up to the workbook held in memory.        *)
(* tpl is the template workbook [stations, hdr, rows]; args the command    *)
(* line [input, fill, rule, agg, strict].                                  *)
(***************************************************************************)
EmptyMatrix == [cols |-> <<>>, rows |-> <<>>]

EmptyMapStats == [source_columns |-> 0, exact |-> 0, fuzzy |-> 0, unmapped |-> <<>>,
                  rows_dropped |-> 0]

\* what a run holds when it stops on a fatal error: nothing to write
Fatal(warnings, mapping) ==
    [ fatal |-> TRUE, warnings |-> warnings, mapping |-> mapping,
      map_stats |-> EmptyMapStats, mapped |-> <<>>, cleaned |-> <<>>,
      clean_stats |-> CleanStats(<<>>, 0, 0, 0, 0, 0),
      target |-> <<>>, matrix |-> EmptyMatrix,
      out_stats |-> [ output_rows |-> 0, output_station_columns |-> 0,
                      pre_fill_missing_cells |-> 0, fill_missing_value |-> NaN,
                      values |-> ValueStats(<<>>) ],
      gaps |-> <<>>,
      sheet |-> [hdr |-> <<>>, rows |-> <<>>] ]

\* the station list of a warning
CodeItems(codes, c2n) == [k \in DOMAIN codes |-> Item("", codes[k], NameOf(c2n, codes[k]), "")]

ListWarning(kind, codes, c2n) ==
    IF codes # <<>> THEN <<Warning(kind, Len(codes), CodeItems(codes, c2n))>> ELSE <<>>

\* the end of main in the four scripts: the gap warning, and write_template
\* on the data sheet of the template
Outcome(tpl, warnings, mapped, cleaned, target_codes, built, gaps, null_cell) ==
    [ fatal |-> FALSE,
      warnings |-> warnings \o CountWarning("gaps", Len(gaps)),
      mapping |-> mapped.mapping, map_stats |-> mapped.stats, mapped |-> mapped.out,
      cleaned |-> cleaned.out, clean_stats |-> cleaned.stats,
      target |-> target_codes, matrix |-> built.matrix,
      out_stats |-> built.stats, gaps |-> gaps,
      sheet |-> WriteTemplate([hdr |-> tpl.hdr, rows |-> tpl.rows],
                              built.matrix, target_codes, null_cell) ]

\* main of the three observed workflows from target_codes to write_template
Finish(tpl, args, before, mapped, cleaned, sheetCodes, c2n, step) ==
    IF cleaned.out = <<>> THEN Fatal(before \o mapped.warnings \o cleaned.warnings, mapped.mapping)
    ELSE Outcome(tpl,
                 before \o mapped.warnings \o cleaned.warnings
                 \o ListWarning("absent",
                                SortInts(Range(TargetCodes(sheetCodes, tpl.hdr))
                                         \ Sids(cleaned.out)),
                                c2n),
                 mapped, cleaned,
                 TargetCodes(sheetCodes, tpl.hdr),
                 BuildMatrix(cleaned.out, TargetCodes(sheetCodes, tpl.hdr), args.fill),
                 ComputeTimeGaps(Times(cleaned.out), step), NaN)

AllCols(file) == [k \in DOMAIN file.cols |-> k]

\* prepare_flow_observed.parse_input
ParseInputFlow(file) == IF file.fmt = "xlsx" THEN RowMajor(file, AllCols(file)) ELSE Melt(file)

\* prepare_flow_observed.main from clean_and_resample on
FlowAfterMapping(tpl, args, mapped) ==
    Finish(tpl, args, <<>>, mapped, CleanAndResampleFlow(mapped.out, args.rule, args.agg),
           SheetCodes(tpl.stations), CodeToName(tpl.stations), args.rule)

\* prepare_flow_observed.main
PrepareFlow(tpl, args) ==
    IF ParseInputFlow(args.input) = <<>> THEN Fatal(<<>>, <<>>)
    ELSE FlowAfterMapping(tpl, args,
                          MapColumnsFlow(ParseInputFlow(args.input), AliasFlow(tpl.stations),
                                         CodeToName(tpl.stations)))

\* prepare_volume_observed.to_long_volume: the class of a metric column
ColumnClass(label) ==
    LET Class(n) ==
            IF Contains(n, "remplissage") \/ Contains(n, "taux") \/ Contains(label, "%")
            THEN "rate"
            ELSE IF Contains(n, "volume") THEN "volume" ELSE "other"
    IN Class(NormalizeVolume(label))

ColsOfClass(file, class) ==
    SelectSeq(AllCols(file), LAMBDA k : ColumnClass(file.cols[k].label) = class)

ColumnWarning(kind, file, cols) ==
    IF cols # <<>>
    THEN <<Warning(kind, Len(cols),
                   [k \in DOMAIN cols |-> Item(file.cols[cols[k]].label, NoCode, "", "")])>>
    ELSE <<>>

\* the long table of to_long_volume: the columns kept, melted
KeepColumns(file, kept) ==
    [file EXCEPT !.cols = [k \in DOMAIN kept |-> file.cols[kept[k]]],
                 !.rows = [r \in DOMAIN file.rows |->
                            [file.rows[r] EXCEPT !.cells = [k \in DOMAIN kept |-> @[kept[k]]]]]]

\* the warnings of to_long_volume about the columns it does not keep
VolumeColumnWarnings(file) ==
    ColumnWarning("rate_columns", file, ColsOfClass(file, "rate"))
    \o ColumnWarning("other_columns", file, ColsOfClass(file, "other"))

\* prepare_volume_observed.main from clean_and_resample on
VolumeAfterMapping(tpl, args, mapped) ==
    Finish(tpl, args, VolumeColumnWarnings(args.input), mapped,
           CleanAndResampleVolume(mapped.out, args.rule, args.agg),
           SheetCodes(tpl.stations), CodeToName(tpl.stations), args.rule)

\* prepare_volume_observed.main; without a volume column to_long_volume raises
PrepareVolume(tpl, args) ==
    IF ColsOfClass(args.input, "volume") = <<>>
    THEN Fatal(VolumeColumnWarnings(args.input), <<>>)
    ELSE VolumeAfterMapping(tpl, args,
             MapStationsVolume(Melt(KeepColumns(args.input, ColsOfClass(args.input, "volume"))),
                               AliasVolume(tpl.stations), CodeToName(tpl.stations)))

\* the step the precipitation scripts expect: pd.Timedelta(hours=1)
HourMinutes == 60

\* code_to_label of the observed-precipitation script: the variable name,
\* else the station name, of the last row of a code
CodeToLabel(rows) ==
    [c \in SheetCodesPrecip(rows) |->
        LET r == rows[Max({i \in DOMAIN rows : rows[i].code = c})]
        IN IF r.var # NoneCell /\ r.var # "" THEN r.var
           ELSE IF r.name # NoneCell /\ r.name # "" THEN r.name ELSE ""]

\* prepare_precip_observed.main: the CSV melted; the worksheet read row by
\* row, the columns with a code when it has a code row, all of them otherwise
ParseInputPrecip(file) ==
    IF file.fmt = "csv" THEN Melt(file)
    ELSE IF file.fmt = "xlsx_code"
    THEN RowMajor(file, SelectSeq(AllCols(file), LAMBDA k : file.cols[k].code # NoCode))
    ELSE RowMajor(file, AllCols(file))

\* prepare_precip_observed.main from clean_values on
PrecipAfterMapping(tpl, args, mapped) ==
    Finish(tpl, args,
           IF args.input.fmt = "xlsx" THEN <<Warning("no_code_row", 0, <<>>)>> ELSE <<>>,
           mapped, CleanValuesPrecip(mapped.out),
           SheetCodesPrecip(tpl.stations), CodeToLabel(tpl.stations), HourMinutes)

PreparePrecipObserved(tpl, args) ==
    PrecipAfterMapping(tpl, args,
                       MapStationsPrecip(ParseInputPrecip(args.input), AliasPrecip(tpl.stations)))

\* the station order of prepare_precip_model.main
ModelOrder(tpl, clean_df) ==
    BuildStationOrder(ExistingOrder(tpl.hdr), SheetCodesPrecip(tpl.stations), Sids(clean_df))

\* prepare_precip_model.main from build_station_order on
ModelAfterValidation(tpl, args, raw_df, validation) ==
    IF validation.errors # <<>> THEN Fatal(validation.warnings, <<>>)
    ELSE Outcome(tpl,
                 validation.warnings
                 \o ListWarning("added", ModelOrder(tpl, validation.out).to_add, <<>>)
                 \o ListWarning("not_in_sheet",
                                SortInts(Sids(validation.out) \ SheetCodesPrecip(tpl.stations)),
                                <<>>)
                 \o ListWarning("absent",
                                SortInts(SheetCodesPrecip(tpl.stations) \ Sids(validation.out)),
                                <<>>),
                 [mapping |-> <<>>, stats |-> EmptyMapStats, out |-> raw_df], validation,
                 ModelOrder(tpl, validation.out).ordered,
                 BuildMatrix(validation.out, ModelOrder(tpl, validation.out).ordered, args.fill),
                 ComputeTimeGaps(Times(validation.out), HourMinutes), NanNumber)

\* prepare_precip_model.main up to write_template
PreparePrecipModel(tpl, args) ==
    ModelAfterValidation(tpl, args, ModelRecs(args.input),
                         ValidateAndCleanInput(ModelRecs(args.input)))

Workflows == {"precip_model", "precip_observed", "flow_observed", "volume_observed"}

\* the template workbook has its data sheet (hdr, rows) and its station sheet
SheetsPresent(tpl) == {"stations", "hdr", "rows"} \subseteq DOMAIN tpl

\* the input can be read as a table: an extension the script's parser knows
\* and, for a CSV, a time column followed by at least one column; the model
\* CSV has the required columns (fmt "model")
Parseable(wf, file) ==
    CASE wf = "precip_model" -> file.fmt = "model"
      [] OTHER -> /\ file.fmt \in {"csv", "xlsx", "xlsx_code"}
                  /\ file.fmt = "csv" => file.cols # <<>>

\* main up to write_template: a missing template sheet returns 1, an input
\* the parser refuses raises (or returns 1), before anything else is done
Prepare(wf, tpl, args) ==
    IF ~SheetsPresent(tpl) \/ ~Parseable(wf, args.input) THEN Fatal(<<>>, <<>>)
    ELSE CASE wf = "flow_observed" -> PrepareFlow(tpl, args)
           [] wf = "volume_observed" -> PrepareVolume(tpl, args)
           [] wf = "precip_observed" -> PreparePrecipObserved(tpl, args)
           [] OTHER -> PreparePrecipModel(tpl, args)

\* the report dict of main: the statistics of every stage, the warnings,
\* and, in the observed workflows, the strict flag
Report(wf, run_id, args, prep) ==
    LET body == [ run_id |-> run_id, output_file |-> <<wf, "run", run_id>>,
                  mapping_stats |-> prep.map_stats,
                  target_station_count_after |-> Len(prep.target),
                  processing_stats |-> prep.clean_stats,
                  gap_count |-> Len(prep.gaps), gaps |-> prep.gaps,
                  output_stats |-> prep.out_stats,
                  written_rows |-> Len(prep.matrix.rows),
                  warnings |-> prep.warnings ]
    IN IF wf = "precip_model" THEN body @@ [errors |-> <<>>]
       ELSE body @@ [strict_mode |-> args.strict]

\* render_report_txt / report_txt / format_report_txt: the text report
\* prints the run, the statistics, the gaps and the warnings
ReportTxt(report) ==
    [k \in DOMAIN report \ {"strict_mode", "errors"} |-> report[k]]

(***************************************************************************)
(* Consolidation of per-file outputs (hydro_sentinel_ui)                   *)
(***************************************************************************)
\* code_to_col of one output: the last header column that carries the code
\* (0 when the output has no such column)
CodeToCol(sheet, code) ==
    Max({0} \cup {k \in DOMAIN sheet.hdr : sheet.hdr[k] = code})

\* the rows of an output that carry a timestamp
StampedRows(sheet) == SelectSeq(sheet.rows, LAMBDA r : r.t # BadTime)

\* what one output writes into values_by_ts_code[(ts, code)]: the cell of its
\* last row of that timestamp that is not empty, NaN when it writes nothing
Contribution(sheet, ts, code) ==
    LET col == CodeToCol(sheet, code)
        rows == SelectSeq(StampedRows(sheet), LAMBDA r : r.t = ts)
    IN IF col = 0 THEN NaN
       ELSE Aggregate("last", [m \in DOMAIN rows |-> rows[m].c[col]])

\* values_by_ts_code after the loop over the files: a later file overwrites
RECURSIVE MergedValue(_, _, _, _)
MergedValue(sheets, n, ts, code) ==
    IF n = 0 THEN NaN
    ELSE LET Written(v) == IF ~IsNaN(v) THEN v ELSE MergedValue(sheets, n - 1, ts, code)
         IN Written(Contribution(sheets[n], ts, code))

\* HydroSentinelUI._consolidate_outputs: the columns are the numeric cells of
\* the template's header row, the rows the sorted timestamps of the outputs,
\* written into the template's data sheet
ConsolidateOutputs(template, sheets) ==
    LET Merged(ordered_codes, sorted_ts) ==
            [ cols |-> ordered_codes,
              rows |-> [i \in DOMAIN sorted_ts |->
                          [t |-> sorted_ts[i],
                           c |-> [k \in DOMAIN ordered_codes |->
                                    MergedValue(sheets, Len(sheets), sorted_ts[i],
                                                ordered_codes[k])]]] ]
    IN WriteTemplate([hdr |-> template.hdr, rows |-> template.rows],
                     Merged(HeaderCodes(template.hdr),
                            SortInts(UNION {{r.t : r \in Range(StampedRows(sheets[n]))} :
                                              n \in DOMAIN sheets})),
                     HeaderCodes(template.hdr), NaN)

(***************************************************************************)
(* State                                                                   *)
(***************************************************************************)
VARIABLES
    tpl,      \* the template workbook: [stations, hdr, rows]
    clock,    \* the UTC clock, in seconds
    books,    \* the workbooks of the output directory, by name
    reports,  \* the JSON and TXT reports of the output directory, by run
    logs,     \* the run logs of the output directory
    proc,     \* the script process: where main stands and what it holds
    done,     \* the runs that have exited, with what each wrote
    ui,       \* the run worker of the desktop UI
    ab,       \* an alias table under construction
    rs        \* one label before and after the resolver

vars == <<tpl, clock, books, reports, logs, proc, done, ui, ab, rs>>

MaxClock == 2
MaxRuns == 2
MaxJobs == 2

EmptyFile == [fmt |-> "csv", cols |-> <<>>, rows |-> <<>>]

NoArgs == [input |-> EmptyFile, fill |-> NaN, rule |-> HourMinutes, agg |-> "mean",
           strict |-> FALSE]

Idle == [pc |-> "idle", wf |-> "", args |-> NoArgs, run_id |-> 0, owner |-> "",
         prep |-> Fatal(<<>>, <<>>), rc |-> 0]

UiIdle == [running |-> FALSE, wf |-> "", jobs |-> <<>>, i |-> 0, ok |-> 0, ko |-> 0,
           existing |-> {}, generated |-> <<>>, consolidate |-> FALSE,
           waiting |-> FALSE, consolidated |-> <<>>, warned |-> FALSE]

AbIdle == [builder |-> "", rows |-> <<>>, i |-> 0, m |-> 0, table |-> EmptyTable,
           finished |-> FALSE]

RsIdle == [wf |-> "", alias |-> EmptyTable, label |-> "", resolved |-> FALSE,
           res |-> [label |-> "", method |-> "", code |-> NoCode, via |-> ""]]

EmptyDir == [n \in {} |-> 0]

\* a function with one more (or one replaced) entry
Put(f, k, v) == [x \in DOMAIN f \cup {k} |-> IF x = k THEN v ELSE f[x]]

RunName(wf, run_id) == <<wf, "run", run_id>>

\* the run ends on "return 1" right after wb.save: the model-precipitation
\* script tests strict mode before it writes the reports
StopsAfterSave(p) == p.wf = "precip_model" /\ p.args.strict /\ p.prep.warnings # <<>>

\* what the exited process leaves in the history of runs: its command, its
\* exit status, the records it had cleaned and the files it wrote
Exited(p, rc) ==
    [ wf |-> p.wf, args |-> p.args, run_id |-> p.run_id, rc |-> rc, owner |-> p.owner,
      fatal |-> p.prep.fatal, warnings |-> p.prep.warnings, cleaned |-> p.prep.cleaned,
      book |-> IF p.pc \in {"saved", "reported"} THEN <<p.prep.sheet>> ELSE <<>>,
      json |-> IF p.pc = "reported" THEN <<Report(p.wf, p.run_id, p.args, p.prep)>> ELSE <<>>,
      txt |-> IF p.pc = "reported"
              THEN <<ReportTxt(Report(p.wf, p.run_id, p.args, p.prep))>> ELSE <<>> ]

(***************************************************************************)
(* The script process: main, step by step                                  *)
(***************************************************************************)
\* main starts: the run id is the clock's second, the log file is opened
Launch(wf, args, owner) ==
    /\ proc' = [Idle EXCEPT !.pc = "started", !.wf = wf, !.args = args,
                            !.run_id = clock, !.owner = owner]
    /\ logs' = logs \cup {<<wf, clock>>}

\* a run started from the command line
Start(wf, args) ==
    /\ proc.pc = "idle" /\ done = <<>> /\ ~ui.running
    /\ Launch(wf, args, "cli")
    /\ UNCHANGED <<tpl, clock, books, reports, done, ui, ab, rs>>

\* parse_args: the --agg choices of the two resampling scripts
AggChoices(wf) ==
    CASE wf = "flow_observed" -> {"mean", "last", "sum", "max", "min", "median"}
      [] wf = "volume_observed" -> {"mean", "last", "min", "max", "median"}
      [] OTHER -> {"mean"}

\* a command whose --agg is no choice of the script: argparse prints the
\* usage error and exits with status 2 before main does anything
StartRejected(wf, args) ==
    /\ proc.pc = "idle" /\ done = <<>> /\ ~ui.running
    /\ args.agg \notin AggChoices(wf)
    /\ proc' = [Idle EXCEPT !.pc = "exited", !.wf = wf, !.args = args, !.owner = "cli",
                            !.rc = 2]
    /\ done' = Append(done, Exited([Idle EXCEPT !.wf = wf, !.args = args, !.owner = "cli"], 2))
    /\ UNCHANGED <<tpl, clock, books, reports, logs, ui, ab, rs>>

\* the same command again, the --strict flag toggled
Rerun ==
    /\ proc.pc = "exited" /\ proc.owner = "cli" /\ Len(done) < MaxRuns
    /\ Launch(proc.wf, [proc.args EXCEPT !.strict = ~@], "cli")
    /\ UNCHANGED <<tpl, clock, books, reports, done, ui, ab, rs>>

PrepareStepSavingFirst ==
    /\ proc.pc = "started"
    /\ LET Holding(prep) ==
               IF prep.fatal
               THEN /\ proc' = [proc EXCEPT !.pc = "exited", !.prep = prep, !.rc = 1]
                    /\ done' = Append(done, Exited([proc EXCEPT !.prep = prep], 1))
               ELSE /\ proc' = [proc EXCEPT !.pc = "prepared", !.prep = prep]
                    /\ done' = done
       IN Holding(Prepare(proc.wf, tpl, proc.args))
    /\ books' = Put(books, RunName(proc.wf, proc.run_id), [hdr |-> <<>>, rows |-> <<>>])
    /\ UNCHANGED <<tpl, clock, reports, logs, ui, ab, rs>>

\* main from the template load to write_template; a fatal error returns 1
PrepareStep ==
    /\ proc.pc = "started"
    /\ LET Holding(prep) ==
               IF prep.fatal
               THEN /\ proc' = [proc EXCEPT !.pc = "exited", !.prep = prep, !.rc = 1]
                    /\ done' = Append(done, Exited([proc EXCEPT !.prep = prep], 1))
               ELSE /\ proc' = [proc EXCEPT !.pc = "prepared", !.prep = prep]
                    /\ done' = done
       IN Holding(Prepare(proc.wf, tpl, proc.args))
    /\ UNCHANGED <<tpl, clock, books, reports, logs, ui, ab, rs>>

\* wb.save(out_xlsx)
SaveWorkbook ==
    /\ proc.pc = "prepared"
    /\ books' = Put(books, RunName(proc.wf, proc.run_id), proc.prep.sheet)
    /\ proc' = [proc EXCEPT !.pc = "saved"]
    /\ UNCHANGED <<tpl, clock, reports, logs, done, ui, ab, rs>>

\* the JSON report and the TXT report
WriteReports ==
    /\ proc.pc = "saved" /\ ~StopsAfterSave(proc)
    /\ LET report == Report(proc.wf, proc.run_id, proc.args, proc.prep)
       IN reports' = Put(reports, <<proc.wf, proc.run_id>>,
                         [json |-> report, txt |-> ReportTxt(report)])
    /\ proc' = [proc EXCEPT !.pc = "reported"]
    /\ UNCHANGED <<tpl, clock, books, logs, done, ui, ab, rs>>

ExitOnWarnings ==
    /\ \/ proc.pc = "reported"
       \/ proc.pc = "saved" /\ StopsAfterSave(proc)
    /\ LET rc == IF proc.prep.warnings # <<>> THEN 1 ELSE 0
       IN /\ proc' = [proc EXCEPT !.pc = "exited", !.rc = rc]
          /\ done' = Append(done, Exited(proc, rc))
    /\ UNCHANGED <<tpl, clock, books, reports, logs, ui, ab, rs>>

\* the end of main: 1 in strict mode with warnings, 0 otherwise
Exit ==
    /\ \/ proc.pc = "reported"
       \/ proc.pc = "saved" /\ StopsAfterSave(proc)
    /\ LET rc == IF proc.args.strict /\ proc.prep.warnings # <<>> THEN 1 ELSE 0
       IN /\ proc' = [proc EXCEPT !.pc = "exited", !.rc = rc]
          /\ done' = Append(done, Exited(proc, rc))
    /\ UNCHANGED <<tpl, clock, books, reports, logs, ui, ab, rs>>

\* a second passes
Tick ==
    /\ clock < MaxClock
    /\ clock' = clock + 1
    /\ UNCHANGED <<tpl, books, reports, logs, proc, done, ui, ab, rs>>

Steps == PrepareStep \/ SaveWorkbook \/ WriteReports \/ Exit

(***************************************************************************)
(* The run worker of the desktop UI                                        *)
(***************************************************************************)
SupportsResample(wf) == wf \in {"flow_observed", "volume_observed"}

\* WorkflowTab._build_cmd: the options the command line carries; a workflow
\* without resampling is run without --resample-rule and --agg
BuildCmd(wf, input_file, opts) ==
    [ input |-> input_file, fill |-> opts.fill,
      rule |-> IF SupportsResample(wf) THEN opts.rule ELSE HourMinutes,
      agg |-> IF SupportsResample(wf) THEN opts.agg ELSE "mean",
      strict |-> opts.strict ]

\* outdir.glob(_output_pattern_for_workflow(wf)): the pattern of the flow and
\* volume workbooks matches their consolidated workbooks too, the pattern of
\* model precipitation matches the observed-precipitation workbooks too
Glob(dir, wf) ==
    {n \in DOMAIN dir : n[1] = wf \/ (wf = "precip_model" /\ n[1] = "precip_observed")}

\* WorkflowTab.run and HydroSentinelUI.run_commands: one command per file, in
\* the order of the detected files; the worker thread is started
RunCommands(wf, files, mode, opts) ==
    /\ ~ui.running /\ ui.jobs = <<>> /\ proc.pc = "idle" /\ done = <<>>
    /\ files # <<>>
    /\ LET chosen == IF mode = "single" THEN <<files[1]>> ELSE files
       IN ui' = [UiIdle EXCEPT !.running = TRUE, !.wf = wf, !.i = 1,
                               !.jobs = [k \in DOMAIN chosen |-> BuildCmd(wf, chosen[k], opts)],
                               !.consolidate = (mode = "batch" /\ SupportsResample(wf))]
    /\ UNCHANGED <<tpl, clock, books, reports, logs, proc, done, ab, rs>>

RunCommandsBusyLaunching(wf, files, mode, opts) ==
    /\ ui.running
    /\ ui' = [UiIdle EXCEPT !.running = TRUE, !.wf = wf, !.i = 1,
                            !.jobs = [k \in DOMAIN files |-> BuildCmd(wf, files[k], opts)],
                            !.consolidate = (mode = "batch" /\ SupportsResample(wf))]
    /\ UNCHANGED <<tpl, clock, books, reports, logs, proc, done, ab, rs>>

\* HydroSentinelUI.run_commands while a batch is running: the warning dialog
\* "Un traitement est deja en cours" is shown and the call returns
RunCommandsBusy(wf, files, mode, opts) ==
    /\ ui.running
    /\ ui' = [ui EXCEPT !.warned = TRUE]
    /\ UNCHANGED <<tpl, clock, books, reports, logs, proc, done, ab, rs>>

\* _run_worker, the head of a turn of the loop: the outputs already there
\* are listed and the command is started
WorkerLaunch ==
    /\ ui.running /\ ~ui.waiting /\ ui.i <= Len(ui.jobs)
    /\ ui' = [ui EXCEPT !.existing = Glob(books, ui.wf), !.waiting = TRUE]
    /\ Launch(ui.wf, ui.jobs[ui.i], "ui")
    /\ UNCHANGED <<tpl, clock, books, reports, done, ab, rs>>

\* _run_worker, a turn in which subprocess.Popen raises: the exception is
\* caught, the turn counts as a failure and the loop goes on
WorkerLaunchFails ==
    /\ ui.running /\ ~ui.waiting /\ ui.i <= Len(ui.jobs)
    /\ ui' = [ui EXCEPT !.existing = Glob(books, ui.wf), !.i = @ + 1, !.ko = @ + 1]
    /\ UNCHANGED <<tpl, clock, books, reports, logs, proc, done, ab, rs>>

WorkerCollectStopping ==
    /\ ui.running /\ ui.waiting /\ proc.pc = "exited"
    /\ LET new_outputs == Glob(books, ui.wf) \ ui.existing
           latest == CHOOSE n \in new_outputs : \A o \in new_outputs : o[3] <= n[3]
       IN ui' = [ui EXCEPT
                   !.waiting = FALSE,
                   !.i = IF proc.rc = 0 THEN @ + 1 ELSE Len(ui.jobs) + 1,
                   !.ok = IF proc.rc = 0 THEN @ + 1 ELSE @,
                   !.ko = IF proc.rc = 0 THEN @ ELSE @ + 1,
                   !.generated = IF proc.rc = 0 /\ new_outputs # {}
                                 THEN Append(@, latest) ELSE @]
    /\ proc' = Idle
    /\ UNCHANGED <<tpl, clock, books, reports, logs, done, ab, rs>>

\* _run_worker, the tail of a turn: the exit status is counted; after a
\* success the new output of the directory joins generated_xlsx
WorkerCollect ==
    /\ ui.running /\ ui.waiting /\ proc.pc = "exited"
    /\ LET new_outputs == Glob(books, ui.wf) \ ui.existing
           latest == CHOOSE n \in new_outputs : \A o \in new_outputs : o[3] <= n[3]
       IN ui' = [ui EXCEPT
                   !.waiting = FALSE, !.i = @ + 1,
                   !.ok = IF proc.rc = 0 THEN @ + 1 ELSE @,
                   !.ko = IF proc.rc = 0 THEN @ ELSE @ + 1,
                   !.generated = IF proc.rc = 0 /\ new_outputs # {}
                                 THEN Append(@, latest) ELSE @]
    /\ proc' = Idle
    /\ UNCHANGED <<tpl, clock, books, reports, logs, done, ab, rs>>

ConsolidatedName(wf, ts) == <<wf, "consolidated", ts>>

WorkerFinishEarly ==
    /\ ui.running /\ ~ui.waiting
    /\ IF ui.consolidate /\ ui.ok > 0 /\ ui.generated # <<>>
       THEN LET sheets == [k \in DOMAIN ui.generated |-> books[ui.generated[k]]]
                name == ConsolidatedName(ui.wf, clock)
            IN /\ books' = Put(books, name, ConsolidateOutputs(tpl, sheets))
               /\ ui' = [ui EXCEPT !.running = FALSE, !.consolidated = <<name>>]
       ELSE /\ books' = books
            /\ ui' = [ui EXCEPT !.running = FALSE]
    /\ UNCHANGED <<tpl, clock, reports, logs, proc, done, ab, rs>>

\* _run_worker after the loop: the consolidation, when it is asked for, a
\* run succeeded and an output was detected; then running is cleared
WorkerFinish ==
    /\ ui.running /\ ~ui.waiting /\ ui.i > Len(ui.jobs)
    /\ IF ui.consolidate /\ ui.ok > 0 /\ ui.generated # <<>>
       THEN LET sheets == [k \in DOMAIN ui.generated |-> books[ui.generated[k]]]
                name == ConsolidatedName(ui.wf, clock)
            IN /\ books' = Put(books, name, ConsolidateOutputs(tpl, sheets))
               /\ ui' = [ui EXCEPT !.running = FALSE, !.consolidated = <<name>>]
       ELSE /\ books' = books
            /\ ui' = [ui EXCEPT !.running = FALSE]
    /\ UNCHANGED <<tpl, clock, reports, logs, proc, done, ab, rs>>

Worker == WorkerLaunch \/ WorkerCollect \/ WorkerFinish

(***************************************************************************)
(* Alias tables and the resolver on their own                              *)
(***************************************************************************)
Builders == {"flow_observed", "volume_observed", "precip_observed", "ui"}

AliasOf(builder, rows) ==
    CASE builder = "flow_observed" -> AliasFlow(rows)
      [] builder = "volume_observed" -> AliasVolume(rows)
      [] builder = "precip_observed" -> AliasPrecip(rows)
      [] OTHER -> AliasUi(rows)

\* extract_template_stations of a script, or the UI's _load_template_mapping,
\* is entered on the station sheet of the template
BeginAlias(builder) ==
    /\ ab.builder = ""
    /\ ab' = [AbIdle EXCEPT !.builder = builder, !.rows = tpl.stations, !.i = 1, !.m = 1]
    /\ UNCHANGED <<tpl, clock, books, reports, logs, proc, done, ui, rs>>

\* one turn of the builder's loop over the station rows
RowOf(builder, table, row) ==
    CASE builder = "flow_observed" -> RowStep("flow_observed", table, row)
      [] builder = "volume_observed" -> RowStep("volume_observed", table, row)
      [] builder = "precip_observed" -> PrecipRowStep(table, row)
      [] OTHER -> RowStep("ui", table, row)

AliasRow ==
    /\ ab.builder # "" /\ ab.i <= Len(ab.rows)
    /\ ab' = [ab EXCEPT !.table = RowOf(ab.builder, ab.table, ab.rows[ab.i]), !.i = @ + 1]
    /\ UNCHANGED <<tpl, clock, books, reports, logs, proc, done, ui, rs>>

\* the builders that go on with a loop over manual aliases
HasManual(builder) == builder \in {"flow_observed", "ui"}

ManualCount(builder) == IF builder = "flow_observed" THEN Len(ManualFlow) ELSE Len(ManualUi)

\* one turn of the loop over the manual aliases (flow script, UI)
AliasManual ==
    /\ HasManual(ab.builder) /\ ab.i > Len(ab.rows) /\ ab.m <= ManualCount(ab.builder)
    /\ ab' = [ab EXCEPT
                 !.table = IF ab.builder = "flow_observed"
                           THEN ManualFlowStep(ab.table, NameToCode("flow_observed", ab.rows), ab.m)
                           ELSE ManualUiStep(ab.table, NameToCode("ui", ab.rows), ab.m),
                 !.m = @ + 1]
    /\ UNCHANGED <<tpl, clock, books, reports, logs, proc, done, ui, rs>>

\* the builder returns its table
AliasReturn ==
    /\ ab.builder # "" /\ ~ab.finished /\ ab.i > Len(ab.rows)
    /\ HasManual(ab.builder) => ab.m > ManualCount(ab.builder)
    /\ ab' = [ab EXCEPT !.finished = TRUE]
    /\ UNCHANGED <<tpl, clock, books, reports, logs, proc, done, ui, rs>>

\* the resolver loop of map_columns_to_codes (flow) or map_stations (volume)
\* on one label
ResolveWith(wf, alias, label) ==
    IF wf = "flow_observed" THEN ResolveLabel("flow_observed", alias, CutoffFlow, label)
    ELSE ResolveLabel("volume_observed", alias, CutoffVolume, label)

\* the resolver of the flow or volume script on one source label
ResolveOne(wf, label) ==
    /\ ~rs.resolved
    /\ LET Resolved(alias) ==
               rs' = [ wf |-> wf, alias |-> alias, label |-> label, resolved |-> TRUE,
                       res |-> ResolveWith(wf, alias, label) ]
       IN Resolved(AliasOf(wf, tpl.stations))
    /\ UNCHANGED <<tpl, clock, books, reports, logs, proc, done, ui, ab>>

InitWith(templates) ==
    /\ tpl \in templates
    /\ clock = 0
    /\ books = EmptyDir /\ reports = EmptyDir /\ logs = {}
    /\ proc = Idle /\ done = <<>> /\ ui = UiIdle
    /\ ab = AbIdle /\ rs = RsIdle

(***************************************************************************)
(* Templates and input files of the checked runs                           *)
(***************************************************************************)
Station(code, name, var) == [code |-> code, name |-> name, var |-> var]

Zrarda == Station(1, "Zrarda", NoneCell)
Malha == Station(2, "Malha", "P_Malha")
Sebou == Station(3, "Sebou", NoneCell)

\* the header row lists the stations of the station sheet, in order
TplSorted == [stations |-> <<Zrarda, Malha, Sebou>>, hdr |-> <<1, 2, 3>>, rows |-> <<>>]

\* the header row lists two of the three stations, not in ascending order
TplPartial == [stations |-> <<Zrarda, Malha, Sebou>>, hdr |-> <<3, 1>>, rows |-> <<>>]

\* the header row has a code the station sheet lacks; two old data rows
TplExtra ==
    [ stations |-> <<Malha, Zrarda>>, hdr |-> <<2, 7, 1>>,
      rows |-> << [t |-> 0, c |-> <<Num(9), Num(9), Num(9)>>],
                  [t |-> 60, c |-> <<Num(9), Num(9), Num(9)>>] >> ]

V(n) == [k |-> "num", v |-> Num(n)]
Comma(n, d) == [k |-> "comma", v |-> Frac(n, d)]
Text == [k |-> "text", v |-> NaN]

Col(label) == [label |-> label, code |-> NoCode]
Coded(label, code) == [label |-> label, code |-> code]
Row(time, cells) == [time |-> time, sid |-> NoCode, cells |-> cells]
ModelRow(time, sid, cell) == [time |-> time, sid |-> sid, cells |-> <<cell>>]
Wide(fmt, cols, rows) == [fmt |-> fmt, cols |-> cols, rows |-> rows]

Suffixed(labels, suffix) == [k \in DOMAIN labels |-> Col(labels[k] \o suffix)]

\* two hourly rows; the station columns in the order given
TwoHours(fmt, cols) ==
    Wide(fmt, cols,
         << Row(0, [k \in DOMAIN cols |-> V(10 * k)]),
            Row(60, [k \in DOMAIN cols |-> V(10 * k + 1)]) >>)

StationOrders == { <<"Zrarda", "Malha", "Sebou">>, <<"Sebou", "Zrarda">>, <<"Malha">> }

ModelFile(rows) == [fmt |-> "model", cols |-> <<>>, rows |-> rows]

MatrixFiles(wf) ==
    CASE wf = "flow_observed" ->
            {TwoHours("csv", Suffixed(o, " debit")) : o \in StationOrders}
      [] wf = "volume_observed" ->
            {TwoHours("csv", Suffixed(o, " volume")) : o \in StationOrders}
      [] wf = "precip_observed" ->
            { TwoHours("csv", <<Col("Zrarda"), Col("P_Malha"), Col("Sebou")>>),
              TwoHours("xlsx", <<Col("Sebou"), Col("Zrarda")>>),
              TwoHours("xlsx_code", <<Coded("c", 9), Coded("b", 2)>>) }
      [] OTHER ->
            { ModelFile(<<ModelRow(0, 1, V(1)), ModelRow(0, 2, V(2)), ModelRow(0, 3, V(3)),
                          ModelRow(60, 1, V(4))>>),
              ModelFile(<<ModelRow(0, 3, V(1)), ModelRow(0, 1, V(2)), ModelRow(60, 3, V(3))>>),
              ModelFile(<<ModelRow(60, 7, V(1)), ModelRow(0, 2, V(2))>>) }

Cmd(wf, input, fill, rule, agg, strict) ==
    [ wf |-> wf,
      args |-> [input |-> input, fill |-> fill, rule |-> rule, agg |-> agg,
                strict |-> strict] ]

MatrixCmds ==
    UNION { {Cmd(wf, f, fill, HourMinutes, "mean", FALSE) :
                f \in MatrixFiles(wf), fill \in {NaN, Num(0)}} : wf \in Workflows }

StartMatrix == \E c \in MatrixCmds : Start(c.wf, c.args)

NextMatrix == StartMatrix \/ PrepareStep \/ SaveWorkbook \/ WriteReports \/ Exit

InitMatrix == InitWith({TplSorted, TplPartial, TplExtra})

SpecMatrix == InitMatrix /\ [][NextMatrix]_vars

\* the run has built its matrix
Built == proc.pc \in {"prepared", "saved", "reported", "exited"} /\ ~proc.prep.fatal

\* C1: in every workflow the column list of the matrix the matrix builder
\* returns is target_codes, element for element, and every matrix row has one
\* value per target code, whatever the order of the station columns in the
\* input file and whichever stations the file has
C1_MatrixColumns ==
    Built =>
        /\ proc.prep.matrix.cols = proc.prep.target
        /\ \A r \in DOMAIN proc.prep.matrix.rows :
              Len(proc.prep.matrix.rows[r].c) = Len(proc.prep.target)

\* a matrix built from a file whose stations are not the target codes (some
\* target code is absent from the file, or the file has a code outside them)
C1_Witness ==
    /\ Built
    /\ proc.prep.matrix.rows # <<>>
    /\ Sids(proc.prep.cleaned) # Range(proc.prep.target)
    /\ proc.prep.matrix.cols = proc.prep.target

StationCodes == {tpl.stations[i].code : i \in DOMAIN tpl.stations}

IsAscending(seq) == \A a, b \in DOMAIN seq : a < b => seq[a] < seq[b]

Repeated(fmt, col) == Wide(fmt, <<col>>, <<Row(0, <<V(10)>>), Row(0, <<V(12)>>), Row(60, <<V(20)>>)>>)

\* the repeated timestamp last, its two rows apart, 12 and then 10
RepeatedApart(fmt, col) ==
    Wide(fmt, <<col>>, <<Row(60, <<V(12)>>), Row(0, <<V(20)>>), Row(60, <<V(10)>>)>>)

DedupFiles(wf) ==
    CASE wf = "flow_observed" ->
            {Repeated("csv", Col("Zrarda debit")), RepeatedApart("xlsx", Col("Sebou"))}
      [] wf = "volume_observed" ->
            {Repeated("csv", Col("Zrarda volume")), RepeatedApart("csv", Col("Sebou_Volume"))}
      [] wf = "precip_observed" ->
            {Repeated("csv", Col("P_Malha")), RepeatedApart("xlsx_code", Coded("x", 3))}
      [] OTHER ->
            { ModelFile(<<ModelRow(0, 1, V(10)), ModelRow(0, 1, V(12)), ModelRow(60, 1, V(20))>>),
              ModelFile(<<ModelRow(60, 2, V(12)), ModelRow(0, 2, V(20)), ModelRow(60, 2, V(10))>>) }

\* the resample rules of the checked runs: one hour, and for the flow script
\* the empty rule
RuleChoices(wf) == IF wf = "flow_observed" THEN {HourMinutes, 0} ELSE {HourMinutes}

DedupCmds ==
    UNION { {Cmd(wf, f, NaN, rule, agg, FALSE) :
                f \in DedupFiles(wf), rule \in RuleChoices(wf), agg \in AggChoices(wf)} :
            wf \in Workflows }

StartDedup == \E c \in DedupCmds : Start(c.wf, c.args)

NextDedup == StartDedup \/ PrepareStep \/ SaveWorkbook \/ WriteReports \/ Exit

InitDedup == InitWith({TplSorted})

SpecDedup == InitDedup /\ [][NextDedup]_vars

\* the records of the mapped input for one (time, station code), in file order
Occurrences(df, time, sid) == SelectSeq(df, LAMBDA r : r.time = time /\ r.sid = sid)

\* C3: in every workflow and for every aggregation, when the input holds
\* several records for one (time, station code), the value of that cell in
\* the cleaned output is the value of the record that comes last in file
\* order (10 then 12 gives 12)
C3_KeepsLast ==
    Built =>
        \A i \in DOMAIN proc.prep.cleaned :
            Len(Occurrences(proc.prep.mapped, proc.prep.cleaned[i].time,
                            proc.prep.cleaned[i].sid)) >= 2
            => proc.prep.cleaned[i].val
               = Occurrences(proc.prep.mapped, proc.prep.cleaned[i].time,
                             proc.prep.cleaned[i].sid)[
                     Len(Occurrences(proc.prep.mapped, proc.prep.cleaned[i].time,
                                     proc.prep.cleaned[i].sid))].raw.v

(***************************************************************************)
(* The resolver on single labels                                           *)
(***************************************************************************)
\* two stations whose names differ by one letter
TplNear ==
    [ stations |-> <<Station(3, "Sebou", NoneCell), Station(4, "Sebbou", NoneCell)>>,
      hdr |-> <<3, 4>>, rows |-> <<>> ]

\* stations the manual aliases of the flow script and of the UI point to
TplManual ==
    [ stations |-> <<Station(2, "El Malha", NoneCell), Station(5, "Ain Sebou", NoneCell)>>,
      hdr |-> <<2, 5>>, rows |-> <<>> ]

ResolveLabels ==
    { "Zrarda", "ZRARDA", "Zrarda_Débit (m3/s)", "Zerarda debit", "Zrarda volume",
      "Malha", "Malka", "El Malha", "Pont El Malha debit", "Sebou", "Sebu", "Sebbu",
      "Unknown Col" }

StartResolve == \E wf \in {"flow_observed", "volume_observed"}, label \in ResolveLabels :
                    ResolveOne(wf, label)

NextResolve == StartResolve

InitResolve == InitWith({TplSorted, TplExtra, TplNear, TplManual})

SpecResolve == InitResolve /\ [][NextResolve]_vars

\* the alias keys whose similarity to the normalised label is at the cutoff
\* of the workflow (0.82 flow, 0.80 volume) or above
CloseKeys(wf, alias, norm) ==
    {k \in DOMAIN alias :
        IF wf = "flow_observed" THEN 100 * Ratio(k, norm)[1] >= 82 * Ratio(k, norm)[2]
        ELSE 100 * Ratio(k, norm)[1] >= 80 * Ratio(k, norm)[2]}

\* the resolution res of a label whose normal form is norm agrees with the
\* order exact, fuzzy at the cutoff, unmapped
ResolvedInOrder(alias, norm, close, res) ==
    /\ res.method \in {"exact", "fuzzy", "unmapped"}
    /\ (res.method = "exact") = (norm \in DOMAIN alias)
    /\ (res.method = "fuzzy") = (norm \notin DOMAIN alias /\ close # {})
    /\ (res.method = "unmapped") = (norm \notin DOMAIN alias /\ close = {})
    /\ res.method = "exact" => res.code = alias[norm]
    /\ res.method = "fuzzy" =>
          /\ res.via \in close
          /\ res.code = alias[res.via]
          /\ \A k \in DOMAIN alias : ~RatioLess(Ratio(res.via, norm), Ratio(k, norm))
    /\ res.method = "unmapped" => res.code = NoCode

\* C4: every label gets one method, in this order: exact when its normal form
\* is an alias key; else fuzzy only when the best similarity over all alias
\* keys is at least the cutoff of the workflow (flow 0.82, volume 0.80), with
\* the code of a best key; else unmapped, without a code
C4_ResolverOrder ==
    rs.resolved =>
        IF rs.wf = "flow_observed"
        THEN ResolvedInOrder(rs.alias, NormalizeFlow(rs.label),
                             CloseKeys(rs.wf, rs.alias, NormalizeFlow(rs.label)), rs.res)
        ELSE ResolvedInOrder(rs.alias, NormalizeVolume(rs.label),
                             CloseKeys(rs.wf, rs.alias, NormalizeVolume(rs.label)), rs.res)

\* a label the volume resolver maps by similarity at a ratio that is below
\* the cutoff of the flow resolver
C4_Witness ==
    /\ rs.resolved /\ rs.wf = "volume_observed" /\ rs.res.method = "fuzzy"
    /\ 100 * Ratio(rs.res.via, NormalizeVolume(rs.label))[1]
         < 82 * Ratio(rs.res.via, NormalizeVolume(rs.label))[2]

(***************************************************************************)
(* Runs on files with labels the alias table lacks                         *)
(***************************************************************************)
WarnFiles(wf) ==
    CASE wf = "flow_observed" ->
            { TwoHours("csv", <<Col("Zerarda debit"), Col("Unknown Col")>>),
              TwoHours("xlsx", <<Col("Sebou"), Col("Sebu")>>),
              TwoHours("csv", <<Col("Unknown Col")>>) }
      [] wf = "volume_observed" ->
            { TwoHours("csv", <<Col("Malka volume"), Col("Unknown volume")>>),
              TwoHours("csv", <<Col("Zrarda volume"), Col("Sebu volume")>>),
              TwoHours("csv", <<Col("Unknown volume")>>) }
      [] OTHER ->
            { TwoHours("csv", <<Col("P_Malha"), Col("Unknown Col")>>),
              TwoHours("xlsx", <<Col("Unknown Col"), Col("Zrarda")>>) }

WarnCmds ==
    UNION { {Cmd(wf, f, NaN, HourMinutes, "mean", strict) :
                f \in WarnFiles(wf), strict \in BOOLEAN} :
            wf \in Workflows \ {"precip_model"} }

StartWarn == \E c \in WarnCmds : Start(c.wf, c.args)

NextWarn == StartWarn \/ PrepareStep \/ SaveWorkbook \/ WriteReports \/ Exit

InitWarn == InitWith({TplSorted, TplPartial})

SpecWarn == InitWarn /\ [][NextWarn]_vars

\* the warnings of the JSON report the run has written, none without a report
ReportedWarnings(run) == IF run.json = <<>> THEN <<>> ELSE run.json[1].warnings

\* a warning of the kind has an item for the label
Names(warnings, kind, label) ==
    \E w \in DOMAIN warnings :
        /\ warnings[w].kind = kind
        /\ \E i \in DOMAIN warnings[w].items : warnings[w].items[i].label = label

\* a fuzzy warning has an item with the label, the code, the canonical name
\* of the code and the cutoff
NamesFuzzy(warnings, m, name) ==
    \E w \in DOMAIN warnings :
        /\ warnings[w].kind = "fuzzy"
        /\ \E i \in DOMAIN warnings[w].items :
              /\ warnings[w].items[i].label = m.label
              /\ warnings[w].items[i].code = m.code
              /\ warnings[w].items[i].name = name
              /\ "cutoff" \in DOMAIN warnings[w].items[i]

\* C5: when a run has ended, every label it resolved as unmapped has no row
\* left and is named in a warning of the report, and every fuzzy resolution
\* is in a warning of the report with the label, the code, the canonical
\* name and the cutoff
C5_MappingAudited ==
    proc.pc = "exited" =>
        \A k \in DOMAIN proc.prep.mapping :
            /\ proc.prep.mapping[k].method = "unmapped" =>
                  /\ \A r \in DOMAIN proc.prep.mapped :
                        proc.prep.mapped[r].label # proc.prep.mapping[k].label
                  /\ Names(ReportedWarnings(done[Len(done)]), "unmapped",
                           proc.prep.mapping[k].label)
            /\ proc.prep.mapping[k].method = "fuzzy" =>
                  NamesFuzzy(ReportedWarnings(done[Len(done)]), proc.prep.mapping[k],
                             NameOf(CodeToName(tpl.stations), proc.prep.mapping[k].code))

(***************************************************************************)
(* Alias tables of station sheets with colliding names                     *)
(***************************************************************************)
\* a misspelt station before the station the UI's manual alias points to, and
\* a station named as a manual alias is spelt
TplCollide ==
    [ stations |-> << Station(5, "Zerarda", NoneCell), Station(1, "Zrarda", NoneCell),
                      Station(6, "Pont Sebbou", NoneCell), Station(7, "Ain Sebou", NoneCell) >>,
      hdr |-> <<1, 5, 6, 7>>, rows |-> <<>> ]

\* one name under two codes, and a variable name that is another's station name
TplTwice ==
    [ stations |-> << Station(1, "Zrarda", NoneCell), Station(8, "Zrarda", "Sebou"),
                      Station(3, "Sebou", NoneCell) >>,
      hdr |-> <<1, 3, 8>>, rows |-> <<>> ]

StartAlias == \E builder \in Builders : BeginAlias(builder)

NextAlias == StartAlias \/ AliasRow \/ AliasManual \/ AliasReturn

InitAlias == InitWith({TplSorted, TplManual, TplNear, TplCollide, TplTwice})

SpecAlias == InitAlias /\ [][NextAlias]_vars

\* C6: wherever an alias table is built, a key that is bound to a station
\* code stays bound to that code: no later station row and no manual alias
\* rebinds it
C6_FirstWriterWins ==
    [][\A k \in DOMAIN ab.table : k \in DOMAIN ab'.table /\ ab'.table[k] = ab.table[k]]_vars

(***************************************************************************)
(* Batches of the desktop UI and their consolidation                       *)
(***************************************************************************)
\* two hourly rows of the stations named, the values counted from base
Hours(labels, suffix, base) ==
    Wide("csv", Suffixed(labels, suffix),
         << Row(0, [k \in DOMAIN labels |-> V(base + 10 * k)]),
            Row(60, [k \in DOMAIN labels |-> V(base + 10 * k + 1)]) >>)

\* both stations, a third timestamp, and one cell that is no number
Overlapping(suffix) ==
    Wide("csv", Suffixed(<<"Zrarda", "Malha">>, suffix),
         << Row(0, <<V(50), Text>>), Row(60, <<V(51), V(61)>>), Row(120, <<V(52), V(62)>>) >>)

\* the file lists of a batch: two files with one station each, another
\* station in each, and a file that has both stations; in both orders
BatchLists(suffix) ==
    { << Hours(<<"Zrarda">>, suffix, 0), Hours(<<"Malha">>, suffix, 20) >>,
      << Hours(<<"Malha">>, suffix, 20), Hours(<<"Zrarda">>, suffix, 0) >>,
      << Hours(<<"Zrarda">>, suffix, 0), Overlapping(suffix) >>,
      << Overlapping(suffix), Hours(<<"Zrarda">>, suffix, 0) >> }

Opts(fill) == [fill |-> fill, rule |-> HourMinutes, agg |-> "mean", strict |-> FALSE]

\* the fill policies: leave null, 0, a literal
FillChoices == {NaN, Num(0), Num(5)}

\* the file lists of the flow batches and of the volume batches
FlowBatchLists == BatchLists(" debit")
VolumeBatchLists == BatchLists(" volume")

StartBatch ==
    \/ \E files \in FlowBatchLists, fill \in FillChoices :
           Len(files) <= MaxJobs /\ RunCommands("flow_observed", files, "batch", Opts(fill))
    \/ \E files \in VolumeBatchLists, mode \in {"single", "batch"} :
           Len(files) <= MaxJobs /\ RunCommands("volume_observed", files, mode, Opts(NaN))

NextBatch == StartBatch \/ Worker \/ Steps \/ Tick

InitBatch == InitWith({TplSorted, TplPartial})

SpecBatch == InitBatch /\ [][NextBatch]_vars

\* the timestamps and the station codes of a workbook's data sheet
Stamps(sheet) == {sheet.rows[r].t : r \in DOMAIN sheet.rows} \ {BadTime}

Codes(sheet) == Range(sheet.hdr) \ {NoCode}

\* the values a data sheet holds for a timestamp and a station code
CellsOf(sheet, ts, code) ==
    {sheet.rows[r].c[k] : r \in {x \in DOMAIN sheet.rows : sheet.rows[x].t = ts},
                          k \in {y \in DOMAIN sheet.hdr : sheet.hdr[y] = code}} \ {NaN}

\* the consolidated workbook of the batch, and its k-th per-file output
Consolidated == books[ui.consolidated[1]]

Output(k) == books[ui.generated[k]]

\* the batch has consolidated two per-file outputs
TwoMerged == ui.consolidated # <<>> /\ Len(ui.generated) = 2

\* merged, consolidated from the outputs a then b, and swapped, consolidated
\* from b then a, hold the later file's value where both files have one, and
\* the value of the only file that has one elsewhere
LaterWins(merged, swapped, a, b) ==
    \A ts \in Stamps(a) \cup Stamps(b), code \in Codes(a) \cup Codes(b) :
        /\ (CellsOf(a, ts, code) # {} /\ CellsOf(b, ts, code) # {}) =>
              /\ CellsOf(merged, ts, code) = CellsOf(b, ts, code)
              /\ CellsOf(swapped, ts, code) = CellsOf(a, ts, code)
        /\ (CellsOf(a, ts, code) # {} /\ CellsOf(b, ts, code) = {}) =>
              /\ CellsOf(merged, ts, code) = CellsOf(a, ts, code)
              /\ CellsOf(swapped, ts, code) = CellsOf(a, ts, code)
        /\ (CellsOf(a, ts, code) = {} /\ CellsOf(b, ts, code) # {}) =>
              /\ CellsOf(merged, ts, code) = CellsOf(b, ts, code)
              /\ CellsOf(swapped, ts, code) = CellsOf(b, ts, code)

\* C7: where two per-file outputs both hold a value for a (timestamp, code),
\* the consolidated cell holds the value of the file that comes later in the
\* list, so that swapping the two files flips it; a cell only one file
\* provides is the same in both orders
C7_LaterFileWins ==
    TwoMerged =>
        LaterWins(Consolidated, ConsolidateOutputs(tpl, <<Output(2), Output(1)>>),
                  Output(1), Output(2))

\* C8: when the two input files of a batch brought disjoint station codes on
\* the same timestamps, the consolidated workbook has, at every timestamp,
\* each station's value from the file that brought the station, under every
\* fill policy and in either file order
C8_DisjointUnion ==
    ( /\ TwoMerged /\ Len(done) = 2
      /\ Sids(done[1].cleaned) \cap Sids(done[2].cleaned) = {}
      /\ Times(done[1].cleaned) = Times(done[2].cleaned) ) =>
        \A k \in {1, 2} : \A i \in DOMAIN done[k].cleaned :
            ~IsNaN(done[k].cleaned[i].val) =>
                CellsOf(Consolidated, done[k].cleaned[i].time, done[k].cleaned[i].sid)
                = {done[k].cleaned[i].val}

\* the timestamps of the rows of a data sheet, in row order
RowStamps(sheet) == [r \in DOMAIN StampedRows(sheet) |-> StampedRows(sheet)[r].t]

\* C9: the consolidated workbook has a value for every (timestamp, code) one
\* of the per-file outputs has a value for, its rows are the sorted union of
\* the timestamps of the outputs, and it has every station column the
\* outputs have
C9_NothingLost ==
    ui.consolidated # <<>> =>
        /\ \A k \in DOMAIN ui.generated :
              /\ Codes(Output(k)) \subseteq Codes(Consolidated)
              /\ \A ts \in Stamps(Output(k)), code \in Codes(Output(k)) :
                    CellsOf(Output(k), ts, code) # {} => CellsOf(Consolidated, ts, code) # {}
        /\ RowStamps(Consolidated)
             = SortInts(UNION {Stamps(Output(k)) : k \in DOMAIN ui.generated})

(***************************************************************************)
(* The same command run twice, with and without --strict                   *)
(***************************************************************************)
StrictFiles(wf) ==
    IF wf = "precip_model" THEN MatrixFiles(wf) ELSE MatrixFiles(wf) \cup WarnFiles(wf)

StrictCmds ==
    UNION { {Cmd(wf, f, NaN, HourMinutes, "mean", strict) :
                f \in StrictFiles(wf), strict \in BOOLEAN} : wf \in Workflows }

StartStrict == \E c \in StrictCmds : Start(c.wf, c.args)

NextStrict == StartStrict \/ Rerun \/ Steps \/ Tick

InitStrict == InitWith({TplSorted})

SpecStrict == InitStrict /\ [][NextStrict]_vars

\* a report without the fields that name the run and echo the --strict option
Payload(files) ==
    [k \in DOMAIN files |->
        [f \in DOMAIN files[k] \ {"run_id", "output_file", "strict_mode"} |-> files[k][f]]]

\* C10: the two runs of one command, one strict and one not, write the same
\* workbook, the same JSON report and the same TXT report, and the strict
\* run exits non-zero exactly when its warnings list is not empty
C10_StrictOnlyExit ==
    (Len(done) = 2 /\ ~done[1].fatal /\ ~done[2].fatal) =>
        /\ done[1].book = done[2].book
        /\ Payload(done[1].json) = Payload(done[2].json)
        /\ Payload(done[1].txt) = Payload(done[2].txt)
        /\ \A k \in {1, 2} :
              done[k].args.strict => (done[k].rc # 0 <=> done[k].warnings # <<>>)

(***************************************************************************)
(* Runs on dirty, empty and unreadable inputs, and on templates that lack  *)
(* a sheet                                                                 *)
(***************************************************************************)
\* a template without its data sheet, and one without its station sheet
TplNoData == [stations |-> <<Zrarda, Malha, Sebou>>]

TplNoStations == [hdr |-> <<1, 2, 3>>, rows |-> <<>>]

\* a known station and an unknown column: an unreadable timestamp, a text
\* value, a negative value on a repeated timestamp, and an hour missing
Dirty(fmt, known, unknown) ==
    Wide(fmt, <<Col(known), Col(unknown)>>,
         << Row(0, <<V(10), V(1)>>), Row(BadTime, <<V(5), V(5)>>),
            Row(60, <<Text, V(2)>>), Row(60, <<V(0 - 3), V(2)>>), Row(180, <<V(7), V(2)>>) >>)

\* every value is text; every timestamp is unreadable
AllText(known) == Wide("csv", <<Col(known)>>, <<Row(0, <<Text>>), Row(60, <<Text>>)>>)

NoTime(known) == Wide("csv", <<Col(known)>>, <<Row(BadTime, <<V(1)>>), Row(BadTime, <<V(2)>>)>>)

\* a CSV with the time column alone, and a file of an unknown extension
TimeOnly == Wide("csv", <<>>, <<Row(0, <<>>), Row(60, <<>>)>>)

Unsupported(known) == TwoHours("txt", <<Col(known)>>)

FaultFiles(wf) ==
    CASE wf = "flow_observed" ->
            { Dirty("csv", "Zrarda debit", "Unknown Col"), Dirty("xlsx", "Zrarda", "Unknown Col"),
              AllText("Zrarda"), NoTime("Zrarda"), TwoHours("csv", <<Col("Unknown Col")>>),
              TimeOnly, Unsupported("Zrarda") }
      [] wf = "volume_observed" ->
            { Dirty("csv", "Zrarda volume", "Unknown volume"), AllText("Zrarda volume"),
              NoTime("Zrarda volume"), TwoHours("csv", <<Col("Unknown volume")>>),
              TwoHours("csv", <<Col("Zrarda taux")>>), TimeOnly, Unsupported("Zrarda volume") }
      [] wf = "precip_observed" ->
            { Dirty("csv", "Zrarda", "Unknown Col"), Dirty("xlsx", "P_Malha", "Unknown Col"),
              AllText("Zrarda"), NoTime("Zrarda"), TwoHours("csv", <<Col("Unknown Col")>>),
              TimeOnly, Unsupported("Zrarda") }
      [] OTHER ->
            { ModelFile(<<ModelRow(0, 1, V(10)), ModelRow(BadTime, 1, V(5)),
                          ModelRow(60, NoCode, V(2)), ModelRow(60, 1, Text),
                          ModelRow(60, 1, V(0 - 3)), ModelRow(180, 7, V(7))>>),
              ModelFile(<<ModelRow(0, 2, Text), ModelRow(60, 2, Text)>>),
              ModelFile(<<ModelRow(BadTime, 1, V(1)), ModelRow(0, NoCode, V(2))>>),
              Unsupported("Zrarda") }

FaultCmds ==
    UNION { {Cmd(wf, f, NaN, rule, "mean", strict) :
                f \in FaultFiles(wf), strict \in BOOLEAN,
                rule \in IF wf = "flow_observed" THEN {0, HourMinutes} ELSE {HourMinutes}} :
            wf \in Workflows }

StartFaults == \E c \in FaultCmds : Start(c.wf, c.args)

NextFaults == StartFaults \/ PrepareStep \/ SaveWorkbook \/ WriteReports \/ Exit

InitFaults == InitWith({TplSorted, TplNoData, TplNoStations})

SpecFaults == InitFaults /\ [][NextFaults]_vars

\* the records of the input that have a station of the template, before cleaning
InputRows(wf, t, file) ==
    CASE wf = "flow_observed" ->
            MapColumnsFlow(ParseInputFlow(file), AliasFlow(t.stations),
                           CodeToName(t.stations)).out
      [] wf = "volume_observed" ->
            MapStationsVolume(Melt(KeepColumns(file, ColsOfClass(file, "volume"))),
                              AliasVolume(t.stations), CodeToName(t.stations)).out
      [] wf = "precip_observed" ->
            MapStationsPrecip(ParseInputPrecip(file), AliasPrecip(t.stations)).out
      [] OTHER -> SelectSeq(ModelRecs(file), LAMBDA r : r.sid # NoCode)

HasTimedRow(rows) == \E i \in DOMAIN rows : rows[i].time # BadTime

Kinds(warnings) == {warnings[i].kind : i \in DOMAIN warnings}

\* C11: without --strict, a run on a readable input and a complete template
\* exits 0 exactly when the input has a record with a readable timestamp and
\* a station of the template (a record remains after cleaning); invalid
\* timestamps, text values, negative values, duplicates, unmapped columns,
\* absent stations and gaps do not change the exit status
C11_DirtyDataNotFatal ==
    \A k \in DOMAIN done :
        (~done[k].args.strict /\ SheetsPresent(tpl) /\ Parseable(done[k].wf, done[k].args.input))
        => (done[k].rc = 0 <=> HasTimedRow(InputRows(done[k].wf, tpl, done[k].args.input)))

C11_Witness ==
    \E k \in DOMAIN done :
        /\ ~done[k].args.strict /\ done[k].rc = 0 /\ done[k].book # <<>>
        /\ {"invalid_time", "invalid_value", "negative", "duplicates", "unmapped",
            "absent", "gaps"} \subseteq Kinds(done[k].warnings)

\* a fatal condition of a run: a template sheet is missing, the input cannot
\* be read as a table, or no record is left after cleaning
FatalCondition(wf, t, file) ==
    \/ ~SheetsPresent(t)
    \/ ~Parseable(wf, file)
    \/ ~HasTimedRow(InputRows(wf, t, file))

\* C12: a run under a fatal condition ends with a non-zero status and leaves
\* neither a workbook nor a report, and a process that has written a
\* workbook is past every fatal check
C12_FatalWritesNothing ==
    /\ \A k \in DOMAIN done :
          FatalCondition(done[k].wf, tpl, done[k].args.input)
          => /\ done[k].fatal /\ done[k].rc # 0
             /\ done[k].book = <<>> /\ done[k].json = <<>> /\ done[k].txt = <<>>
             /\ RunName(done[k].wf, done[k].run_id) \notin DOMAIN books
             /\ <<done[k].wf, done[k].run_id>> \notin DOMAIN reports
    /\ (books # EmptyDir \/ reports # EmptyDir)
       => ~proc.prep.fatal /\ ~FatalCondition(proc.wf, tpl, proc.args.input)

\* the three kinds of fatal condition have each ended a run
C12_Witness ==
    /\ done # <<>> /\ done[1].fatal /\ done[1].rc # 0 /\ books = EmptyDir
    /\ SheetsPresent(tpl) /\ Parseable(done[1].wf, done[1].args.input)
    /\ done[1].warnings # <<>>

C12_WitnessNoSheet == done # <<>> /\ done[1].fatal /\ ~SheetsPresent(tpl)

(***************************************************************************)
(* Runs on inputs off the resample grid, with an hour missing, and with an *)
(* hour at which no station has a value; every fill policy                 *)
(***************************************************************************)
\* two stations of the template, by their column labels
OffGrid(cols) == Wide("csv", cols, <<Row(30, <<V(1), V(2)>>), Row(90, <<V(3), V(4)>>)>>)

MissingHour(cols) == Wide("csv", cols, <<Row(0, <<V(1), V(2)>>), Row(120, <<V(3), V(4)>>)>>)

NullHour(cols) ==
    Wide("csv", cols,
         <<Row(0, <<V(1), V(2)>>), Row(60, <<Text, Text>>), Row(120, <<V(3), Text>>)>>)

GridFiles(wf) ==
    CASE wf = "precip_model" ->
            { ModelFile(<<ModelRow(30, 1, V(1)), ModelRow(30, 3, V(2)), ModelRow(90, 1, V(3))>>),
              ModelFile(<<ModelRow(0, 1, V(1)), ModelRow(0, 3, V(2)), ModelRow(120, 1, V(3))>>),
              ModelFile(<<ModelRow(0, 1, V(1)), ModelRow(0, 3, V(2)), ModelRow(60, 1, Text),
                          ModelRow(60, 3, Text), ModelRow(120, 1, V(3))>>),
              ModelFile(<<ModelRow(0, 1, V(1)), ModelRow(60, 1, V(2)), ModelRow(60, 3, V(3))>>) }
      [] OTHER ->
            LET Files(cols) == {OffGrid(cols), MissingHour(cols), NullHour(cols),
                                TwoHours("csv", cols)}
            IN Files(Suffixed(<<"Zrarda", "Sebou">>,
                              CASE wf = "flow_observed" -> " debit"
                                [] wf = "volume_observed" -> " volume"
                                [] OTHER -> ""))

\* --fill-missing: leave null, zero, a literal
GridFills == {NaN, Num(0), Num(5)}

GridCmds ==
    UNION { {Cmd(wf, f, fill, rule, agg, FALSE) :
                f \in GridFiles(wf), fill \in GridFills,
                rule \in IF wf = "flow_observed" THEN {0, HourMinutes} ELSE {HourMinutes},
                agg \in IF SupportsResample(wf) THEN {"mean", "last"} ELSE {"mean"}} :
            wf \in Workflows }

StartGrid == \E c \in GridCmds : Start(c.wf, c.args)

NextGrid == StartGrid \/ PrepareStep \/ SaveWorkbook \/ WriteReports \/ Exit

InitGrid == InitWith({TplSorted, TplPartial})

SpecGrid == InitGrid /\ [][NextGrid]_vars

\* the readable timestamps of an input file
InputTimes(file) == {file.rows[r].time : r \in DOMAIN file.rows} \ {BadTime}

\* C13: every row timestamp of a written workbook occurs in the input file of
\* the run, in every workflow, resampling or not, aligned to the grid or not
C13_NoNewTimestamps ==
    \A k \in DOMAIN done :
        done[k].book # <<>> => Stamps(done[k].book[1]) \subseteq InputTimes(done[k].args.input)

\* C14: the row timestamps of a written workbook are, in order, the sorted
\* unique timestamps of the records handed to the matrix builder, a timestamp
\* at which every station value is null included
C14_RowsAreRecordTimes ==
    \A k \in DOMAIN done :
        done[k].book # <<>> => RowStamps(done[k].book[1]) = SortInts(Times(done[k].cleaned))

\* the values the cleaned records give for a timestamp and a station code
ValidAt(df, t, code) ==
    ValuesOf(SelectSeq(df, LAMBDA r : r.time = t /\ r.sid = code /\ ~IsNaN(r.val)))

\* the cell a record-derived value or else the fill policy prescribes
CellFor(vals, fill) == IF vals = <<>> THEN fill ELSE vals[Len(vals)]

\* C15: in the matrix of a run, a cell for which the cleaned records hold a
\* value keeps that value under every fill policy, and every other cell (so
\* every cell of a target code absent from the input) is null where nulls
\* are left and the fill value where a fill value is given; the null cells
\* counted before the fill are the cells without a record value
C15_FillOnlyNulls ==
    Built =>
        /\ proc.prep.matrix.cols = proc.prep.target
        /\ \A r \in DOMAIN proc.prep.matrix.rows : \A k \in DOMAIN proc.prep.target :
              proc.prep.matrix.rows[r].c[k]
                  = CellFor(ValidAt(proc.prep.cleaned, proc.prep.matrix.rows[r].t,
                                    proc.prep.target[k]), proc.args.fill)
        /\ proc.prep.out_stats.pre_fill_missing_cells
              = Cardinality({ rk \in (DOMAIN proc.prep.matrix.rows) \X (DOMAIN proc.prep.target) :
                                ValidAt(proc.prep.cleaned, proc.prep.matrix.rows[rk[1]].t,
                                        proc.prep.target[rk[2]]) = <<>> })

\* a literal fill on a matrix with an absent station, a null cell of a
\* present station and cells that come from the input
C15_Witness ==
    /\ Built /\ proc.args.fill = Num(5)
    /\ \E k \in DOMAIN proc.prep.target : proc.prep.target[k] \notin Sids(proc.prep.cleaned)
    /\ \E r \in DOMAIN proc.prep.matrix.rows : \E k, j \in DOMAIN proc.prep.target :
          /\ proc.prep.target[k] \in Sids(proc.prep.cleaned)
          /\ ValidAt(proc.prep.cleaned, proc.prep.matrix.rows[r].t, proc.prep.target[k]) = <<>>
          /\ proc.prep.matrix.rows[r].c[k] = Num(5)
          /\ ValidAt(proc.prep.cleaned, proc.prep.matrix.rows[r].t, proc.prep.target[j]) # <<>>
          /\ proc.prep.matrix.rows[r].c[j] # Num(5)

\* the cells of the matrix that come from the records: the valid cells of the
\* pivot on the target codes, before any fill
DerivedCells(prep) == Valid(Ravel(Reindex(PivotTable(prep.cleaned), prep.target)))

\* C16: the minimum, maximum and mean a run reports are those of the valid
\* cells that come from the input, under every fill policy: the fill value
\* is no part of them
C16_StatsIgnoreFill == Built => proc.prep.out_stats.values = ValueStats(DerivedCells(proc.prep))

\* the cadence the gap detector of a workflow expects
Cadence(p) == IF SupportsResample(p.wf) THEN p.args.rule ELSE HourMinutes

\* two timestamps of a set with none of the set between them
Consecutive(ts, a, b) == a \in ts /\ b \in ts /\ a < b /\ ~\E t \in ts : a < t /\ t < b

\* C17: the gaps a run holds are, in time order, one entry for each pair of
\* consecutive unique timestamps of its cleaned records whose distance is not
\* the expected cadence, each with the two timestamps and their distance;
\* pairs at the cadence and an empty series give none; the matrix is the one
\* built from the records alone
C17_GapsExactly ==
    proc.pc \in {"prepared", "saved", "reported", "exited"} =>
        /\ \A g \in DOMAIN proc.prep.gaps :
              /\ Consecutive(Times(proc.prep.cleaned), proc.prep.gaps[g].prev,
                             proc.prep.gaps[g].cur)
              /\ proc.prep.gaps[g].delta = proc.prep.gaps[g].cur - proc.prep.gaps[g].prev
              /\ proc.prep.gaps[g].delta # Cadence(proc)
              /\ g > 1 => proc.prep.gaps[g - 1].prev < proc.prep.gaps[g].prev
        /\ \A a, b \in Times(proc.prep.cleaned) :
              (Consecutive(Times(proc.prep.cleaned), a, b) /\ b - a # Cadence(proc))
              => \E g \in DOMAIN proc.prep.gaps :
                     proc.prep.gaps[g].prev = a /\ proc.prep.gaps[g].cur = b
        /\ ~proc.prep.fatal
           => proc.prep.matrix
                = BuildMatrix(proc.prep.cleaned, proc.prep.target, proc.args.fill).matrix

\* an hourly series with one hour missing: one pair at the cadence, one gap
C17_Witness ==
    /\ proc.pc = "exited" /\ ~proc.prep.fatal /\ Cadence(proc) = HourMinutes
    /\ Times(proc.prep.cleaned) = {0, 60, 180}
    /\ proc.prep.gaps = <<[delta |-> 120, prev |-> 60, cur |-> 180]>>

(***************************************************************************)
(* Runs on templates that hold the rows of an earlier run                  *)
(***************************************************************************)
\* three old data rows under a header of two stations
TplUsed ==
    [ stations |-> <<Zrarda, Malha, Sebou>>, hdr |-> <<3, 1>>,
      rows |-> << [t |-> 0, c |-> <<Num(7), Num(8)>>],
                  [t |-> 60, c |-> <<Num(7), Num(8)>>],
                  [t |-> 120, c |-> <<Num(7), Num(8)>>] >> ]

RewriteCmds ==
    UNION { {Cmd(wf, f, fill, HourMinutes, "mean", FALSE) :
                f \in MatrixFiles(wf), fill \in {NaN, Num(0)}} : wf \in Workflows }

StartRewrite == \E c \in RewriteCmds : Start(c.wf, c.args)

NextRewrite == StartRewrite \/ PrepareStep \/ SaveWorkbook \/ WriteReports \/ Exit

InitRewrite == InitWith({TplUsed, TplExtra})

SpecRewrite == InitRewrite /\ [][NextRewrite]_vars

\* the data sheet holds the target codes in its header, the matrix rows from
\* the first data row with every null as an empty cell, and nothing in the
\* timestamp column and the target columns below them
HoldsMatrixOnly(sheet, matrix, target_codes) ==
    /\ Len(sheet.hdr) >= Len(target_codes)
    /\ SubSeq(sheet.hdr, 1, Len(target_codes)) = target_codes
    /\ Len(sheet.rows) >= Len(matrix.rows)
    /\ \A r \in DOMAIN sheet.rows : \A k \in DOMAIN target_codes :
          IF r <= Len(matrix.rows)
          THEN /\ sheet.rows[r].t = matrix.rows[r].t
               /\ sheet.rows[r].c[k] = IF IsNaN(matrix.rows[r].c[k]) THEN NaN
                                       ELSE matrix.rows[r].c[k]
          ELSE sheet.rows[r].t = BadTime /\ sheet.rows[r].c[k] = NaN

\* C18: the workbook a run saves from a template with rows of an earlier run
\* has the target codes in the header cells of columns 2..n+1, the matrix
\* rows in order with nulls as empty cells, and empty cells in the target
\* columns below the last written row
C18_TemplateRewritten ==
    (proc.pc \in {"saved", "reported", "exited"} /\ ~proc.prep.fatal)
    => HoldsMatrixOnly(books[RunName(proc.wf, proc.run_id)], proc.prep.matrix,
                       proc.prep.target)

(***************************************************************************)
(* Batches with jobs that fail: an input without a known station, strict   *)
(* mode with warnings, a command that cannot be launched                   *)
(***************************************************************************)
JobFiles ==
    { Hours(<<"Zrarda">>, " debit", 0), Hours(<<"Malha">>, " debit", 20),
      TwoHours("csv", <<Col("Unknown Col")>>) }

JobLists == {<<a, b>> : a \in JobFiles, b \in JobFiles}

StartJobs ==
    \E files \in JobLists, strict \in BOOLEAN :
        /\ Len(files) <= MaxJobs
        /\ RunCommands("flow_observed", files, "batch", [Opts(NaN) EXCEPT !.strict = strict])

NextJobs ==
    \/ StartJobs
    \/ WorkerLaunch \/ WorkerLaunchFails \/ WorkerCollect \/ WorkerFinish
    \/ Steps \/ Tick

InitJobs == InitWith({TplSorted})

SpecJobs == InitJobs /\ [][NextJobs]_vars

\* the workbook a finished job of the worker wrote, exit status 0
FinishedOutput(name) ==
    \E d \in DOMAIN done :
        /\ done[d].owner = "ui" /\ done[d].rc = 0 /\ done[d].book # <<>>
        /\ RunName(done[d].wf, done[d].run_id) = name

\* C19: in batch mode the step that writes the consolidated workbook is taken
\* when every job of the list has been started and has ended, no process is
\* running, and it reads workbooks written by jobs that have exited only
C19_ConsolidationAfterJobs ==
    [][ ui'.consolidated # ui.consolidated
        => /\ ui.i > Len(ui.jobs) /\ ~ui.waiting
           /\ ui.ok + ui.ko = Len(ui.jobs)
           /\ proc.pc = "idle"
           /\ \A k \in DOMAIN ui.generated : FinishedOutput(ui.generated[k])
           /\ books'[ui'.consolidated[1]]
                = ConsolidateOutputs(tpl, [k \in DOMAIN ui.generated |-> books[ui.generated[k]]])
      ]_vars

\* a batch of two jobs, one of which failed, has been consolidated
C19_Witness ==
    /\ ui.consolidated # <<>> /\ Len(ui.jobs) = 2 /\ ui.ok = 1 /\ ui.ko = 1
    /\ ~ui.running

\* seq is the head of longer
IsPrefix(seq, longer) == Len(seq) <= Len(longer) /\ SubSeq(longer, 1, Len(seq)) = seq

\* C20: the worker starts the jobs of its list one by one in the order of the
\* list, each once: a process is started for job i only, the turn of job i
\* ends by moving to job i + 1 whether the process exited with 0, exited
\* with another status or could not be launched; the list of outputs handed
\* to the consolidation only grows; when the loop ends every job has been
\* counted once, as a success or as a failure
C20_EachJobOnce ==
    [][ /\ (ui.running /\ ui'.running)
           => /\ ui'.jobs = ui.jobs
              /\ ui'.i \in {ui.i, ui.i + 1}
              /\ ui'.ok + ui'.ko = ui'.i - 1
              /\ IsPrefix(ui.generated, ui'.generated)
        /\ (ui.running /\ proc.pc # "started" /\ proc'.pc = "started")
           => /\ ~ui.waiting /\ ui'.waiting /\ ui'.i = ui.i
              /\ ui.i \in DOMAIN ui.jobs /\ proc'.args = ui.jobs[ui.i]
        /\ (ui.running /\ ui.waiting /\ ~ui'.waiting) => ui'.i = ui.i + 1
        /\ (ui.running /\ ~ui'.running)
           => /\ ui.i = Len(ui.jobs) + 1
              /\ ui.ok + ui.ko = Len(ui.jobs)
              /\ ui'.generated = ui.generated /\ ui'.ok = ui.ok /\ ui'.ko = ui.ko
      ]_vars

\* the first job failed, the second ran and its output is in the list
C20_Witness ==
    /\ ~ui.running /\ Len(ui.jobs) = 2 /\ Len(done) = 2
    /\ done[1].rc # 0 /\ done[2].rc = 0
    /\ ui.generated = <<RunName(done[2].wf, done[2].run_id)>>
    /\ ui.ok = 1 /\ ui.ko = 1

(***************************************************************************)
(* The resampling workflows under every aggregation                        *)
(***************************************************************************)
\* four values in the first hour, one in the second: the six aggregations
\* of the first hour are six different numbers
Quarters(label) ==
    Wide("csv", <<Col(label)>>,
         << Row(0, <<V(1)>>), Row(15, <<V(7)>>), Row(30, <<V(2)>>), Row(45, <<V(4)>>),
            Row(60, <<V(5)>>) >>)

SixAggs == {"mean", "last", "sum", "min", "max", "median"}

AggCmds ==
    { Cmd(wf, Quarters(IF wf = "flow_observed" THEN station \o " debit"
                       ELSE station \o " volume"),
          fill, HourMinutes, agg, FALSE) :
        wf \in {"flow_observed", "volume_observed"}, station \in {"Zrarda", "Sebou"},
        fill \in {NaN, Num(0)}, agg \in SixAggs \cup {"mode"} }

StartAgg ==
    \E c \in AggCmds :
        \/ c.args.agg \in AggChoices(c.wf) /\ Start(c.wf, c.args)
        \/ StartRejected(c.wf, c.args)

NextAgg == StartAgg \/ PrepareStep \/ SaveWorkbook \/ WriteReports \/ Exit

InitAgg == InitWith({TplSorted, TplPartial})

SpecAgg == InitAgg /\ [][NextAgg]_vars

\* the values of a station's input records that fall into a bucket
BucketValues(rows, sid, rule, bucket) ==
    ValuesOf(SelectSeq(rows, LAMBDA r : r.sid = sid /\ Floor(r.time, rule) = bucket))

\* every cleaned record holds the aggregation agg of its bucket
AggregatedBy(agg, cleaned, rows, rule) ==
    \A i \in DOMAIN cleaned :
        cleaned[i].val = Aggregate(agg, BucketValues(rows, cleaned[i].sid, rule,
                                                     cleaned[i].time))

\* C21: a flow or volume run with one of the six aggregations mean, last,
\* sum, min, max, median is accepted and its records hold that aggregation
\* of each bucket; a run with another aggregation ends with an error and
\* writes nothing
C21_SixAggregations ==
    \A k \in DOMAIN done :
        IF done[k].args.agg \in SixAggs
        THEN /\ done[k].rc = 0 /\ done[k].book # <<>>
             /\ AggregatedBy(done[k].args.agg, done[k].cleaned,
                             Coerce(InputRows(done[k].wf, tpl, done[k].args.input), "comma"),
                             done[k].args.rule)
        ELSE done[k].rc # 0 /\ done[k].book = <<>>

(***************************************************************************)
(* The normalizers on single labels                                        *)
(***************************************************************************)
MaxWord == 3

NormAlphabet == {"A", "b", "é", "_", " ", "(", "3"}

\* the strings over the alphabet up to a length
RECURSIVE Words(_)
Words(n) ==
    IF n = 0 THEN {""} ELSE Words(n - 1) \cup {w \o c : w \in Words(n - 1), c \in NormAlphabet}

\* an empty cell, every short string, and labels with unit suffixes,
\* underscores, punctuation, accents and repeated whitespace
NormLabels ==
    Words(MaxWord)
    \cup { NoneCell, "Zrarda_Débit (m3/s)", "  Sébou   volume (Mm3) ", "P_Malha", "DÉBIT",
           "Taux (%) remplissage", "Volume(hm 3)", "É(m3/s)é", "Sebou" }

Modules == {"flow_observed", "volume_observed", "precip_observed", "ui"}

\* normalize_text of a module on the label, and on its own result
NormalizeLabel(module) ==
    /\ ~rs.resolved
    /\ rs' = [ rs EXCEPT !.wf = module, !.resolved = TRUE,
                         !.res = [ label |-> NormalizeOf(module, rs.label),
                                   method |-> "normalized", code |-> NoCode,
                                   via |-> NormalizeOf(module, NormalizeOf(module, rs.label)) ] ]
    /\ UNCHANGED <<tpl, clock, books, reports, logs, proc, done, ui, ab>>

NextNormalize == \E module \in Modules : NormalizeLabel(module)

InitNormalize ==
    /\ tpl = TplSorted /\ clock = 0
    /\ books = EmptyDir /\ reports = EmptyDir /\ logs = {}
    /\ proc = Idle /\ done = <<>> /\ ui = UiIdle /\ ab = AbIdle
    /\ \E label \in NormLabels : rs = [RsIdle EXCEPT !.label = label]

SpecNormalize == InitNormalize /\ [][NextNormalize]_vars

\* C22: normalize_text of the flow, volume and observed-precipitation scripts
\* and of the UI gives a string for every label, the empty cell included,
\* and gives that same string when applied to it again
C22_NormalizeIdempotent ==
    rs.resolved => /\ rs.res.label \in STRING
                   /\ rs.res.via = rs.res.label

\* a label with an accent, an underscore, a unit suffix and a capital
\* letter that the normalizer has changed
C22_Witness ==
    /\ rs.resolved /\ rs.wf = "flow_observed" /\ rs.label = "Zrarda_Débit (m3/s)"
    /\ rs.res.label = "zrarda debit" /\ rs.res.via = "zrarda debit"

\* str.upper() on the letters of the model
UpperChar(c) ==
    LET i == IndexOf(c, LowerLetters, 1)
    IN IF i = 0 THEN c ELSE SubSeq(UpperLetters, i, i)

Upper(s) == MapChars(UpperChar, s)

\* the label in capitals, in small letters, and without its accents
CaseAndAccentVariants(label) == {Upper(label), Lower(label), StripMarks(label)}

\* C23: in the normalizer of every module, a label and the labels that
\* differ from it in letter case or in accents only normalize to the same
\* string
C23_CaseAndAccentBlind ==
    (rs.resolved /\ rs.label # NoneCell)
    => \A other \in CaseAndAccentVariants(rs.label) :
           NormalizeOf(rs.wf, other) = rs.res.label


(***************************************************************************)
(* The outputs a batch hands to its consolidation                          *)
(***************************************************************************)
\* the jobs of the worker that exited with status 0, as places of done
Succeeded == {d \in DOMAIN done : done[d].owner = "ui" /\ done[d].rc = 0}

\* the worker's loop is over: every job has had its turn
LoopOver == ui.jobs # <<>> /\ ui.i > Len(ui.jobs) /\ ~ui.waiting

\* C24: when the loop of a batch is over, the list of generated workbooks
\* holds one path per job that exited with 0, no path twice, and the workbook
\* at the path of each such job is the one that job wrote, also when two
\* jobs started in the same second and so carry the same run id
C24_OwnOutputPerJob ==
    LoopOver
    => /\ Len(ui.generated) = Cardinality(Succeeded)
       /\ \A a, b \in DOMAIN ui.generated : ui.generated[a] = ui.generated[b] => a = b
       /\ \A d \in Succeeded :
            /\ \E k \in DOMAIN ui.generated :
                   ui.generated[k] = RunName(done[d].wf, done[d].run_id)
            /\ RunName(done[d].wf, done[d].run_id) \in DOMAIN books
            /\ <<books[RunName(done[d].wf, done[d].run_id)]>> = done[d].book


\* the timestamps of the rows of a matrix
RowTimes(matrix) == {matrix.rows[r].t : r \in DOMAIN matrix.rows}

\* C25: in the flow and volume workflows every pair of consecutive rows of
\* the written matrix whose timestamps are not one resample rule apart comes
\* with a reported gap: the run holds at least one gap and a gap warning, so
\* a run without gaps wrote rows evenly spaced at the rule
C25_UnevenRowsReported ==
    (Built /\ SupportsResample(proc.wf))
    => \A a, b \in RowTimes(proc.prep.matrix) :
           (Consecutive(RowTimes(proc.prep.matrix), a, b) /\ b - a # proc.args.rule)
           => /\ proc.prep.gaps # <<>>
              /\ "gaps" \in Kinds(proc.prep.warnings)


(***************************************************************************)
(* Inputs in which two columns name the same station                       *)
(***************************************************************************)
\* the same station under two spellings, under its name and a near
\* spelling of it, and two different stations
CollideFiles(wf) ==
    LET Files(suffix) ==
            { TwoHours("csv", Suffixed(<<"Zrarda", "ZRARDA">>, suffix)),
              TwoHours("csv", Suffixed(<<"Sebou", "sebou", "Zrarda">>, suffix)),
              TwoHours("csv", Suffixed(<<"Zrarda", "Sebou">>, suffix)) }
    IN CASE wf = "flow_observed" ->
               Files(" debit") \cup {TwoHours("csv", <<Col("Zrarda debit"), Col("Zerarda debit")>>)}
         [] wf = "volume_observed" -> Files(" volume")
         [] OTHER -> Files("") \cup {TwoHours("xlsx_code", <<Coded("a", 1), Coded("b", 1)>>)}

CollideCmds ==
    UNION { {Cmd(wf, f, NaN, rule, agg, FALSE) :
                f \in CollideFiles(wf), rule \in RuleChoices(wf),
                agg \in IF SupportsResample(wf) THEN {"mean", "last"} ELSE {"mean"}} :
            wf \in {"flow_observed", "volume_observed", "precip_observed"} }

StartCollide == \E c \in CollideCmds : Start(c.wf, c.args)

NextCollide == StartCollide \/ PrepareStep \/ SaveWorkbook \/ WriteReports \/ Exit

InitCollide == InitWith({TplSorted, TplPartial})

SpecCollide == InitCollide /\ [][NextCollide]_vars

\* the station codes that two different source labels of the mapped input reach
SharedCodes(mapped) ==
    {mapped[i].sid : i \in {k \in DOMAIN mapped :
                              \E j \in DOMAIN mapped : /\ mapped[j].sid = mapped[k].sid
                                                       /\ mapped[j].label # mapped[k].label}}

\* a warning that tells of records of one station meeting: the duplicates
\* dropped, or the fuzzy mapping of a label to the code
WarnsOf(warnings, code) ==
    \E w \in DOMAIN warnings :
        \/ warnings[w].kind = "duplicates"
        \/ /\ warnings[w].kind = "fuzzy"
           /\ \E i \in DOMAIN warnings[w].items : warnings[w].items[i].code = code

\* C26: in a run of an observed workflow that built its matrix, every station
\* code that two different source labels of the input resolve to comes with a
\* warning, so the values of two columns are not put into one station column
\* without a trace
C26_SingleSourcePerCode ==
    Built => \A code \in SharedCodes(proc.prep.mapped) : WarnsOf(proc.prep.warnings, code)


\* the matrix holds the value of a cleaned record in the cell of its
\* timestamp and station code
InMatrix(matrix, rec) ==
    \E r \in DOMAIN matrix.rows, k \in DOMAIN matrix.cols :
        /\ matrix.rows[r].t = rec.time /\ matrix.cols[k] = rec.sid
        /\ matrix.rows[r].c[k] = rec.val

\* a warning of the run names the station code
CodeWarned(warnings, code) ==
    \E w \in DOMAIN warnings :
        \E i \in DOMAIN warnings[w].items : warnings[w].items[i].code = code

\* C27: in a run that built its matrix, every cleaned record with a value is
\* in the matrix cell of its timestamp and station code, or a warning of the
\* run names its station code; this includes the observed-precipitation run
\* whose input carries a code of neither the station sheet nor the header
C27_NoSilentLoss ==
    Built => \A i \in DOMAIN proc.prep.cleaned :
                 \/ IsNaN(proc.prep.cleaned[i].val)
                 \/ InMatrix(proc.prep.matrix, proc.prep.cleaned[i])
                 \/ CodeWarned(proc.prep.warnings, proc.prep.cleaned[i].sid)


\* C28: a run that ended with exit status 0 has written a matrix with at
\* least one timestamp row, also when every value of the input is text or
\* empty and every cleaned value is null
C28_ExitZeroHasRows ==
    \A k \in DOMAIN done :
        done[k].rc = 0
        => /\ done[k].book # <<>>
           /\ done[k].book[1].rows # <<>>

(***************************************************************************)
(* Templates whose header row is wider than the target codes               *)
(***************************************************************************)
\* a code twice in the header row; three old data rows
TplDup ==
    [ stations |-> <<Zrarda, Malha, Sebou>>, hdr |-> <<1, 2, 3, 3>>,
      rows |-> << [t |-> 0, c |-> <<Num(7), Num(7), Num(7), Num(8)>>],
                  [t |-> 60, c |-> <<Num(7), Num(7), Num(7), Num(8)>>],
                  [t |-> 120, c |-> <<Num(7), Num(7), Num(7), Num(8)>>] >> ]

\* a cell that is no number between two codes of the header row
TplHole ==
    [ stations |-> <<Zrarda, Malha, Sebou>>, hdr |-> <<1, NoCode, 2, 3>>,
      rows |-> << [t |-> 0, c |-> <<Num(7), NaN, Num(7), Num(8)>>],
                  [t |-> 60, c |-> <<Num(7), NaN, Num(7), Num(8)>>] >> ]

StartHeader == \E c \in RewriteCmds : Start(c.wf, c.args)

NextHeader == StartHeader \/ PrepareStep \/ SaveWorkbook \/ WriteReports \/ Exit

InitHeader == InitWith({TplDup, TplHole, TplUsed})

SpecHeader == InitHeader /\ [][NextHeader]_vars

\* the cell of the data region is empty or is the cell the matrix has there
FreshCell(sheet, matrix, r, k) ==
    \/ IsNaN(sheet.rows[r].c[k])
    \/ /\ r <= Len(matrix.rows) /\ k <= Len(matrix.cols)
       /\ sheet.rows[r].c[k] = matrix.rows[r].c[k]

\* the header holds every target code once and no other code; the data
\* region holds matrix cells only; the column a reader by header code takes
\* for a target code holds the matrix column of that code
HeaderAndDataFresh(sheet, matrix, target_codes) ==
    /\ \A code \in Range(target_codes) :
           Cardinality({k \in DOMAIN sheet.hdr : sheet.hdr[k] = code}) = 1
    /\ Range(HeaderCodes(sheet.hdr)) = Range(target_codes)
    /\ \A r \in DOMAIN sheet.rows : \A k \in DOMAIN sheet.rows[r].c :
           FreshCell(sheet, matrix, r, k)
    /\ \A code \in Range(target_codes) :
           /\ CodeToCol(sheet, code) = PositionOf(target_codes, code)
           /\ \A r \in DOMAIN sheet.rows :
                  sheet.rows[r].t # BadTime
                  => FreshCell(sheet, matrix, r, CodeToCol(sheet, code))

\* C29: the workbook a run saves has, in the header row of its data sheet,
\* the target codes each once and no other numeric code, and at or below the
\* first data row no value the template held before the run, whatever the
\* template's header row held; reading it by header code gives values the
\* run wrote
C29_HeaderAndDataFresh ==
    (proc.pc \in {"saved", "reported", "exited"} /\ ~proc.prep.fatal)
    => HeaderAndDataFresh(books[RunName(proc.wf, proc.run_id)], proc.prep.matrix,
                          proc.prep.target)


(***************************************************************************)
(* Calls of run_commands while a batch is running                          *)
(***************************************************************************)
\* a second click on Run while the batch is under way
CallWhileBusy ==
    \E files \in JobLists, strict \in BOOLEAN :
        RunCommandsBusy("flow_observed", files, "batch", [Opts(NaN) EXCEPT !.strict = strict])

NextGuarded ==
    \/ StartJobs \/ CallWhileBusy
    \/ WorkerLaunch \/ WorkerLaunchFails \/ WorkerCollect \/ WorkerFinish
    \/ Steps \/ Tick

InitGuarded == InitWith({TplSorted})

SpecGuarded == InitGuarded /\ [][NextGuarded]_vars

\* C30: one batch worker at a time.  While the running flag is set the
\* worker's job list, workflow and mode stay the ones it was started with and
\* its position only moves forward by one; a call of run_commands in that
\* time changes nothing but the warning it shows; the flag is set in a step
\* that starts no process, before the first job; a process of the UI is
\* started only while the flag is set; the flag is cleared only when the
\* last job has had its turn, no process is running and the consolidation,
\* when it is due, has been written
C30_SingleWorker ==
    [][ /\ (ui.running /\ ui'.running)
           => /\ ui'.jobs = ui.jobs /\ ui'.wf = ui.wf /\ ui'.consolidate = ui.consolidate
              /\ ui'.i \in {ui.i, ui.i + 1}
              /\ IsPrefix(ui.generated, ui'.generated)
        /\ (ui.running /\ ui'.warned # ui.warned)
           => /\ [ui' EXCEPT !.warned = ui.warned] = ui
              /\ UNCHANGED <<tpl, clock, books, reports, logs, proc, done, ab, rs>>
        /\ (~ui.running /\ ui'.running)
           => /\ proc.pc = "idle" /\ proc' = proc /\ logs' = logs
              /\ ui'.i = 1 /\ ui'.ok = 0 /\ ui'.ko = 0 /\ ~ui'.waiting
        /\ (proc.pc # "started" /\ proc'.pc = "started" /\ proc'.owner = "ui")
           => ui.running /\ ui'.running
        /\ (ui.running /\ ~ui'.running)
           => /\ ui.i > Len(ui.jobs) /\ ~ui.waiting /\ proc.pc = "idle"
              /\ ui.ok + ui.ko = Len(ui.jobs)
              /\ (ui.consolidate /\ ui.ok > 0 /\ ui.generated # <<>>)
                 => ui'.consolidated # <<>>
      ]_vars

\* a call was refused while the first job was under way, and the batch went
\* on to its end with both jobs counted
C30_Witness ==
    /\ ui.warned /\ ~ui.running /\ Len(ui.jobs) = 2 /\ Len(done) = 2
    /\ ui.ok + ui.ko = 2
    /\ [k \in DOMAIN done |-> done[k].args] = ui.jobs

====
